---- MODULE Spec2Model ----
(***************************************************************************)
(* Model of the real-time capture and fair-value pricing engine:           *)
(*   - PriceCache, OrderBook, GammaClient, rtds_prices_listener and        *)
(*     orderbook_listener (src/src/polymarket_capturer.py)                 *)
(*   - PricingModel (src/src/pricing.py)                                   *)
(*   - PolymarketWebSocketCollector (src/src/websocket_collector.py)       *)
(*   - BacktestRunner and BacktestData (src/backtest)                      *)
(* Each component has its own specification (SpecCache, SpecBook,          *)
(* SpecPricing, ...); Spec is their interleaving.  The model was compared  *)
(* with the Python source on the reachable states of the specifications.   *)
(***************************************************************************)
EXTENDS Integers, Sequences, FiniteSets, TLC

VARIABLES
    \* PriceCache
    cache_ts,      \* self._ts : key -> list of timestamps (ms)
    cache_px,      \* self._px : key -> list of prices
    added,         \* history: every (key, ts_ms, price) passed to add()
    n_adds,        \* history: number of add() calls so far
    last_asof,     \* the latest asof() call and what it returned
    \* OrderBook, its writer (the listener's handler calling book()) and a
    \* reader calling snapshot()
    bids,          \* self.bids : price -> size
    asks,          \* self.asks : price -> size
    bids_keys,     \* the keys of self.bids in insertion order
    asks_keys,     \* the keys of self.asks in insertion order
    book_pc,       \* where the writer stands in book(): "idle" or "L100"
    asks_sorted,   \* book()'s local asks_sorted, between lines 99 and 100
    in_bids,       \* the bids argument of the latest book() call
    in_asks,       \* the asks argument of the latest book() call
    call_no,       \* history: number of book() calls started
    bids_from,     \* history: the call that assigned self.bids
    asks_from,     \* history: the call that assigned self.asks
    dropped,       \* history: the latest call removed or changed a level
    snap,          \* the latest snapshot() result, with what it read
    \* PricingModel
    fv_in,         \* the arguments of compute_fair_value
    fv_out,        \* what compute_fair_value returned for them
    mp_in,         \* the arguments of find_misprice
    mp_out,        \* what find_misprice returned for them
    vol_in,        \* the price_history argument of estimate_vol_from_prices
    vol_out,       \* what estimate_vol_from_prices returned for it
    \* rtds_prices_listener
    rtds_pc,       \* where the listener coroutine stands
    stop_evt,      \* stop_evt.is_set()
    ws_open,       \* the connection of the "async with" block is open
    subs_sent,     \* history: ws.send(sub_msg) calls on this connection
    read_any,      \* history: a message was read on this connection
    reconnected,   \* history: an earlier connection had been established
    fail_kind,     \* history: the failure the listener is recovering from
    steps,         \* history: what the listener did since that failure
    fails,         \* history: failures since the last message read
    sleep_ms,      \* the delay of the latest asyncio.sleep, in ms
    handled,       \* history: the latest message read and what it caused
    \* orderbook_listener
    clob_pc,       \* where the listener coroutine stands
    clob_stop,     \* stop_evt.is_set()
    clob_ws_open,  \* the connection of the "async with" block is open
    clob_subs,     \* history: subscriptions sent
    ping_pc,       \* where the pinger task stands
    clob_events,   \* the events of the current message not yet dispatched
    clob_calls,    \* history: the events passed to the callback, in order
    clob_end,      \* history: what made the listener leave its loop
    clob_rcvd,     \* history: the messages "async for" has yielded
    \* the coordinator of one market's listener
    now,           \* the clock, in seconds
    win_start,     \* the market window opens
    win_end,       \* the market window closes
    \* GammaClient.scan_15m_events
    scan_pc,       \* "idle", "requesting", "returned", "raised"
    scan_now,      \* utc_now() of line 130, in seconds
    scan_horizon,  \* horizon_sec
    scan_offset,   \* offset
    scan_i,        \* passes of the loop of line 134 completed
    scan_out,      \* out: events, each named by its number
    scan_result,   \* what the call returned
    scan_reqs,     \* history: the offsets requested
    scan_pages,    \* history: the pages the catalog answered with
    \* GammaClient.extract_asset
    ea_in,         \* the event given, or None
    ea_out,        \* the text returned, or None
    \* PolymarketWebSocketCollector
    col_pc,        \* "start", "connecting", "subscribing", "receiving",
                   \* "closing", "sleeping"
    col_depth,     \* calls of connect() made from within connect()
    col_sleep,     \* seconds of the sleep before the reconnect
    col_exc,       \* the exception that is leaving the "async with" block
    col_total,     \* validation_stats["total_updates"]
    col_valid,     \* validation_stats["valid_updates"]
    col_invalid,   \* validation_stats["invalid_updates"]
    col_errors,    \* len(validation_stats["validation_errors"])
    col_markets,   \* the keys of self.markets
    col_files,     \* the keys of self.csv_files
    col_buf,       \* the rows written to each open file, not yet flushed
    col_disk,      \* the rows of each log file on disk
    col_seen,      \* history: the messages handled and what came of them
    bt_pc,         \* where backtest_detector stands
    bt_num,        \* its num_markets argument
    bt_idx,        \* market_idx
    bt_pnls,       \* all_pnls
    bt_trades,     \* all_trades
    bt_wins,       \* all_wins
    bt_tested,     \* markets_tested
    bt_result,     \* what backtest_detector returned
    bt_signals,    \* history: what the detector returned, market by market
    bt_outcomes,   \* history: the settlement price of each market
    bt_last,       \* history: the latest signal graded and its grade
    fs_in,         \* the arguments of the latest from_signals call
    fs_result      \* what from_signals returned for them

cacheVars == <<cache_ts, cache_px, added, n_adds, last_asof>>

bookVars == <<bids, asks, bids_keys, asks_keys, book_pc, asks_sorted, in_bids, in_asks, call_no,
              bids_from, asks_from, dropped, snap>>

pricingVars == <<fv_in, fv_out, mp_in, mp_out, vol_in, vol_out>>

oracleVars == <<rtds_pc, stop_evt, ws_open, subs_sent, read_any, reconnected,
                fail_kind, steps, fails, sleep_ms, handled>>

clobVars == <<clob_pc, clob_stop, clob_ws_open, clob_subs, ping_pc,
              clob_events, clob_calls, clob_end, clob_rcvd>>

listenerVars == <<oracleVars, clobVars>>

schedVars == <<now, win_start, win_end>>

\* the components below the two listeners
scanVars == <<scan_pc, scan_now, scan_horizon, scan_offset, scan_i,
              scan_out, scan_result, scan_reqs, scan_pages>>

assetVars == <<ea_in, ea_out>>

collectorVars == <<col_pc, col_depth, col_sleep, col_exc, col_total,
                   col_valid, col_invalid, col_errors, col_markets,
                   col_files, col_buf, col_disk, col_seen>>

backtestVars == <<bt_pc, bt_num, bt_idx, bt_pnls, bt_trades, bt_wins,
                  bt_tested, bt_result, bt_signals, bt_outcomes, bt_last,
                  fs_in, fs_result>>

auxVars == <<schedVars, scanVars, assetVars, collectorVars, backtestVars>>

vars == <<cacheVars, bookVars, pricingVars, listenerVars, auxVars>>

----------------------------------------------------------------------------
(* Bounds and input sets *)

\* number of add() calls explored
MaxAdds == 4

\* PriceCache(max_age_sec): the constructor argument explored
MaxAgeSec == 1

Sources == {"cl", "bn"}
Assets == {"btc"}
Keys == Sources \X Assets

\* timestamps (ms) that arrive, in any order
Timestamps == {0, 500, 1000, 3000}

\* query times for asof(): the arriving timestamps and points between them
QueryTimes == Timestamps \cup {-1, 750}

\* number of book() calls explored
MaxCalls == 2

\* failures in a row that the history counts
MaxFails == 2

\* callback calls made by the order-book listener
MaxClobCalls == 3

\* messages the order-book listener takes from its connection
MaxClobMsgs == 3

\* messages the collector handles
MaxUpdates == 3

\* reconnects of the collector
MaxReconnects == 1

\* markets a backtest runs over
MaxMarkets == 2

\* seconds the coordinator's clock runs on after a window's bracket
MaxOvertime == 2

\* passes of the scan in which the catalog may answer with any page; later
\* passes get the empty page or the page without a 15m event
MaxRichPages == 2

\* longest price history given to estimate_vol_from_prices
MaxHist == 3

\* add() calls made by the oracle listener
MaxOracleAdds == 1

\* longest list of levels in one book() call, and the number of price ticks
MaxLen == 8
MaxPrice == 7

\* rotations of the price pattern of an input list
Rots == {0, 1}

EmptyDict == [k \in {} |-> <<>>]
\* Optional values: None, or Some(v)
None == <<>>
Some(v) == <<v>>

SetMax(S) == CHOOSE m \in S : \A x \in S : x <= m

----------------------------------------------------------------------------
(* PriceCache *)

\* self.max_age_ms = max_age_sec * 1000
max_age_ms == MaxAgeSec * 1000

\* bisect.bisect_right(a, x, lo, hi) on a 0-based list: the binary search of
\* the standard library, which does not assume that a is sorted.
RECURSIVE bisect_loop(_, _, _, _)
bisect_loop(a, x, lo, hi) ==
    IF lo < hi
    THEN LET mid == (lo + hi) \div 2
         IN  IF x < a[mid + 1]
             THEN bisect_loop(a, x, lo, mid)
             ELSE bisect_loop(a, x, mid + 1, hi)
    ELSE lo

bisect_right(a, x) == bisect_loop(a, x, 0, Len(a))

\* list.insert(i, v) with 0 <= i <= len
list_insert(a, i, v) == SubSeq(a, 1, i) \o <<v>> \o SubSeq(a, i + 1, Len(a))

\* del a[:j]
del_prefix(a, j) == SubSeq(a, j + 1, Len(a))

\* lines 55-61, the timestamp list after the insertion
\* (faulty variant: always appends)
insert_ts_append_only(ts_arr, ts_ms) == Append(ts_arr, ts_ms)
insert_ts(ts_arr, ts_ms) ==
    IF ts_arr = <<>> \/ ts_ms >= ts_arr[Len(ts_arr)]
    THEN Append(ts_arr, ts_ms)
    ELSE list_insert(ts_arr, bisect_right(ts_arr, ts_ms), ts_ms)

\* lines 55-61, the price list after the insertion (same index i)
\* (faulty variant: the price is appended whatever the index)
insert_px_append_only(ts_arr, px_arr, ts_ms, price) == Append(px_arr, price)
insert_px(ts_arr, px_arr, ts_ms, price) ==
    IF ts_arr = <<>> \/ ts_ms >= ts_arr[Len(ts_arr)]
    THEN Append(px_arr, price)
    ELSE list_insert(px_arr, bisect_right(ts_arr, ts_ms), price)

\* lines 63-64, the number j of leading entries to delete; ts_arr is the list
\* after the insertion, ts_ms the timestamp just added
\* (faulty variant: the cutoff is taken from the timestamp just added)
evict_count_from_added(ts_arr, ts_ms) ==
    bisect_right(ts_arr, (ts_ms - max_age_ms) - 1)
evict_count(ts_arr, ts_ms) ==
    LET cutoff == ts_arr[Len(ts_arr)] - max_age_ms
    IN  bisect_right(ts_arr, cutoff - 1)

\* dict lookup with the default of lines 48-50
series(d, key) == IF key \in DOMAIN d THEN d[key] ELSE <<>>

\* (faulty variant: the assignment forgets every other key)
dict_set_only(d, key, v) == [k \in {key} |-> v]
dict_set(d, key, v) ==
    [k \in DOMAIN d \cup {key} |-> IF k = key THEN v ELSE d[k]]

\* PriceCache.add(source, asset, ts_ms, price): what the call does to the
\* cache
CacheAdd(key, ts_ms, price) ==
    /\ LET ts0 == series(cache_ts, key)
           px0 == series(cache_px, key)
           ts1 == insert_ts(ts0, ts_ms)
           px1 == insert_px(ts0, px0, ts_ms, price)
           j   == evict_count(ts1, ts_ms)
       IN  /\ cache_ts' = dict_set(cache_ts, key,
                                   IF j > 0 THEN del_prefix(ts1, j) ELSE ts1)
           /\ cache_px' = dict_set(cache_px, key,
                                   IF j > 0 THEN del_prefix(px1, j) ELSE px1)
    /\ added' = added \cup {<<key, ts_ms, price>>}
    /\ n_adds' = n_adds + 1
    /\ last_asof' = None

\* one add() call by a user of the cache
Add(key, ts_ms, price) ==
    /\ n_adds < MaxAdds
    /\ CacheAdd(key, ts_ms, price)
    /\ UNCHANGED <<bookVars, pricingVars, listenerVars, auxVars>>

\* PriceCache.asof(source, asset, ts_ms) -> (ts, price) or (None, None)
\* (faulty variant: the latest entry strictly before ts_ms)
asof_index_strictly_before(ts_arr, ts_ms) == bisect_right(ts_arr, ts_ms - 1) - 1
\* (faulty variant: bisect_left, the first of the entries that share ts_ms)
asof_index_first_of_ties(ts_arr, ts_ms) ==
    IF \E i \in 1..Len(ts_arr) : ts_arr[i] = ts_ms
    THEN bisect_right(ts_arr, ts_ms - 1)
    ELSE bisect_right(ts_arr, ts_ms) - 1
asof_index(ts_arr, ts_ms) == bisect_right(ts_arr, ts_ms) - 1

asof(key, ts_ms) ==
    LET ts_arr == series(cache_ts, key)
    IN  IF ts_arr = <<>> THEN <<None, None>>
        ELSE LET i == asof_index(ts_arr, ts_ms)
             IN  IF i < 0 THEN <<None, None>>
                 ELSE <<Some(ts_arr[i + 1]), Some(cache_px[key][i + 1])>>

Asof(key, ts_ms) ==
    /\ last_asof' = Some([key |-> key, ts_ms |-> ts_ms, out |-> asof(key, ts_ms)])
    /\ UNCHANGED <<cache_ts, cache_px, added, n_adds>>
    /\ UNCHANGED <<bookVars, pricingVars, listenerVars, auxVars>>

InitCacheEmpty ==
    /\ cache_ts = EmptyDict
    /\ cache_px = EmptyDict
    /\ added = {}
    /\ n_adds = 0
    /\ last_asof = None

\* the price of an add() is its sequence number, so that every stored price
\* identifies the call that stored it
NextCache ==
    \/ \E key \in Keys, ts_ms \in Timestamps : Add(key, ts_ms, n_adds + 1)
    \/ \E key \in Keys, ts_ms \in QueryTimes : Asof(key, ts_ms)

----------------------------------------------------------------------------
(* OrderBook *)

LEVELS == 5

\* A price or size as it arrives in a message: text <<v, k>>, where k tells
\* apart spellings of the same number ("0.5", "0.50"); float() keeps v.
to_float(text) == text[1]

\* The lists of levels a book() call may receive: len levels whose prices
\* walk the ticks 1..MaxPrice in steps of 3 from rot (neither ascending nor
\* descending), repeating a price, with another size and spelling, once len
\* exceeds MaxPrice.
Levels(len, rot) ==
    [i \in 1..len |->
        [price |-> <<((3 * i + rot) % MaxPrice) + 1, i % 2>>,
         size  |-> <<((i + rot) % 2) + 1, 0>>]]

InputLists == {Levels(len, rot) : len \in 0..MaxLen, rot \in Rots}

\* sorted(items, key=lambda x: x[0], reverse=reverse): stable in both
\* directions, so each element goes after the elements that do not come
\* after it
RECURSIVE sorted_items(_, _)
sorted_items(items, reverse) ==
    IF items = <<>> THEN <<>>
    ELSE LET rest == sorted_items(SubSeq(items, 1, Len(items) - 1), reverse)
             e    == items[Len(items)]
             pos  == Cardinality({k \in 1..Len(rest) :
                         IF reverse THEN rest[k][1] >= e[1]
                                    ELSE rest[k][1] <= e[1]})
         IN  list_insert(rest, pos, e)

\* a[:n]
take(a, n) == SubSeq(a, 1, IF Len(a) < n THEN Len(a) ELSE n)

\* dict(pairs): the last pair of a key wins
dict_of(pairs) ==
    [p \in {pairs[i][1] : i \in 1..Len(pairs)} |->
        pairs[SetMax({i \in 1..Len(pairs) : pairs[i][1] = p})][2]]

\* the keys of dict(pairs) in insertion order: a key stands where its
\* first pair stands
RECURSIVE dict_keys(_)
dict_keys(pairs) ==
    IF pairs = <<>> THEN <<>>
    ELSE LET first == dict_keys(SubSeq(pairs, 1, Len(pairs) - 1))
             k     == pairs[Len(pairs)][1]
         IN  IF \E i \in 1..Len(first) : first[i] = k
             THEN first ELSE Append(first, k)

\* d.items(), as a list of (key, value) in the insertion order of the keys
dict_items(d, keys) == [i \in 1..Len(keys) |-> <<keys[i], d[keys[i]]>>]

\* ((float(b["price"]), float(b["size"])) for b in levels)
float_pairs(levels) ==
    [i \in 1..Len(levels) |->
        <<to_float(levels[i].price), to_float(levels[i].size)>>]

\* lines 89-93 and 94-97
book_bids_sorted(bids_in) == take(sorted_items(float_pairs(bids_in), TRUE), LEVELS)
book_asks_sorted(asks_in) == take(sorted_items(float_pairs(asks_in), FALSE), LEVELS)

\* lines 99 and 100: the new value of self.bids / self.asks; old is the
\* value the attribute held
\* (faulty variant: the new levels are merged into the old dict)
assign_merging(old, pairs) ==
    [p \in DOMAIN old \cup DOMAIN dict_of(pairs) |->
        IF p \in DOMAIN dict_of(pairs) THEN dict_of(pairs)[p] ELSE old[p]]
assign_levels(old, pairs) == dict_of(pairs)

\* lines 104 and 105
\* (faulty variant: bids sorted without reverse=True)
snapshot_bid_items_ascending(d, keys) ==
    take(sorted_items(dict_items(d, keys), FALSE), LEVELS)
snapshot_bid_items(d, keys) ==
    take(sorted_items(dict_items(d, keys), TRUE), LEVELS)
snapshot_ask_items(d, keys) ==
    take(sorted_items(dict_items(d, keys), FALSE), LEVELS)

\* OrderBook.snapshot(): out["bid_price_i"], out["bid_size_i"] is bids[i],
\* out["ask_price_i"], out["ask_size_i"] is asks[i]
snapshot ==
    [bids |-> snapshot_bid_items(bids, bids_keys),
     asks |-> snapshot_ask_items(asks, asks_keys)]

\* The places of the writer at which another task of the event loop can run.
\* book() holds no await, so no task runs between its lines 99 and 100.
\* (faulty variant: a task switch between lines 99 and 100)
SuspensionPointsWithYieldInBook == {"idle", "L100"}
SuspensionPoints == {"idle"}

changed(old, new) ==
    \E p \in DOMAIN old : p \notin DOMAIN new \/ new[p] # old[p]

\* OrderBook.book(bids, asks), lines 88-99
BookBids(bids_in, asks_in) ==
    /\ book_pc = "idle"
    /\ call_no < MaxCalls
    /\ bids' = assign_levels(bids, book_bids_sorted(bids_in))
    /\ bids_keys' = dict_keys(book_bids_sorted(bids_in))
    /\ asks_sorted' = book_asks_sorted(asks_in)
    /\ in_bids' = bids_in
    /\ in_asks' = asks_in
    /\ call_no' = call_no + 1
    /\ bids_from' = call_no + 1
    /\ dropped' = changed(bids, bids')
    /\ book_pc' = "L100"
    /\ snap' = None
    /\ UNCHANGED <<asks, asks_keys, asks_from>>
    /\ UNCHANGED <<cacheVars, pricingVars, listenerVars, auxVars>>

\* OrderBook.book(bids, asks), line 100 and the return
BookAsks ==
    /\ book_pc = "L100"
    /\ asks' = assign_levels(asks, asks_sorted)
    /\ asks_keys' = dict_keys(asks_sorted)
    /\ asks_from' = call_no
    /\ dropped' = (dropped \/ changed(asks, asks'))
    /\ asks_sorted' = <<>>
    /\ book_pc' = "idle"
    /\ UNCHANGED <<bids, bids_keys, in_bids, in_asks, call_no, bids_from,
                   snap>>
    /\ UNCHANGED <<cacheVars, pricingVars, listenerVars, auxVars>>

\* OrderBook.snapshot() called by a reader task
Snapshot ==
    /\ book_pc \in SuspensionPoints
    /\ snap' = Some([out |-> snapshot, bids_from |-> bids_from,
                     asks_from |-> asks_from])
    /\ UNCHANGED <<bids, asks, bids_keys, asks_keys, book_pc, asks_sorted,
                   in_bids, in_asks, call_no, bids_from, asks_from, dropped>>
    /\ UNCHANGED <<cacheVars, pricingVars, listenerVars, auxVars>>

InitBookIdle ==
    /\ bids = EmptyDict
    /\ asks = EmptyDict
    /\ bids_keys = <<>>
    /\ asks_keys = <<>>
    /\ book_pc = "idle"
    /\ asks_sorted = <<>>
    /\ in_bids = <<>>
    /\ in_asks = <<>>
    /\ call_no = 0
    /\ bids_from = 0
    /\ asks_from = 0
    /\ dropped = FALSE
    /\ snap = None

IdleFairValue == fv_in = None /\ fv_out = None

IdleMisprice == mp_in = None /\ mp_out = None

IdleVol == vol_in = None /\ vol_out = None

InitPricingIdle == IdleFairValue /\ IdleMisprice /\ IdleVol

\* rtds_prices_listener has not been called
IdleOracle ==
    /\ rtds_pc = "idle"
    /\ stop_evt = FALSE
    /\ ws_open = FALSE
    /\ subs_sent = 0
    /\ read_any = FALSE
    /\ reconnected = FALSE
    /\ fail_kind = "none"
    /\ steps = <<>>
    /\ fails = 0
    /\ sleep_ms = 0
    /\ handled = None

\* orderbook_listener has not been called
IdleClob ==
    /\ clob_pc = "idle"
    /\ clob_stop = FALSE
    /\ clob_ws_open = FALSE
    /\ clob_subs = 0
    /\ ping_pc = "none"
    /\ clob_events = <<>>
    /\ clob_calls = <<>>
    /\ clob_end = "none"
    /\ clob_rcvd = <<>>

IdleSched == now = 0 /\ win_start = 0 /\ win_end = 0

IdleScan ==
    /\ scan_pc = "idle"
    /\ scan_now = 0
    /\ scan_horizon = 0
    /\ scan_offset = 0
    /\ scan_i = 0
    /\ scan_out = <<>>
    /\ scan_result = None
    /\ scan_reqs = <<>>
    /\ scan_pages = <<>>

IdleAsset == ea_in = None /\ ea_out = None

IdleCollector ==
    /\ col_pc = "idle"
    /\ col_depth = 0
    /\ col_sleep = 0
    /\ col_exc = "none"
    /\ col_total = 0
    /\ col_valid = 0
    /\ col_invalid = 0
    /\ col_errors = 0
    /\ col_markets = {}
    /\ col_files = {}
    /\ col_buf = <<>>
    /\ col_disk = <<>>
    /\ col_seen = <<>>

IdleBacktest ==
    /\ bt_pc = "idle"
    /\ bt_num = 0
    /\ bt_idx = 0
    /\ bt_pnls = <<>>
    /\ bt_trades = 0
    /\ bt_wins = 0
    /\ bt_tested = 0
    /\ bt_result = None
    /\ bt_signals = <<>>
    /\ bt_outcomes = <<>>
    /\ bt_last = None
    /\ fs_in = None
    /\ fs_result = None

InitAuxIdle ==
    IdleSched /\ IdleScan /\ IdleAsset /\ IdleCollector /\ IdleBacktest

InitListenersIdle == IdleOracle /\ IdleClob /\ InitAuxIdle

InitBook ==
    InitBookIdle /\ InitCacheEmpty /\ InitPricingIdle /\ InitListenersIdle

InitCache ==
    InitCacheEmpty /\ InitBookIdle /\ InitPricingIdle /\ InitListenersIdle

SpecCache == InitCache /\ [][NextCache]_vars

NextBook ==
    \/ \E bids_in \in InputLists, asks_in \in InputLists : BookBids(bids_in, asks_in)
    \/ BookAsks
    \/ Snapshot

SpecBook == InitBook /\ [][NextBook]_vars


----------------------------------------------------------------------------
(* PricingModel.compute_fair_value *)

(* Floats are fixed-point integers:
     prices                 whole units
     volatility_1m          1e-5
     minutes_remaining      1e-2 (hundredths of a minute)
     distance, sigma_remaining, fair values    1e-6
     z_score                1e-3                                            *)

\* 1.0 and 0.001 in units of 1e-6
ONE == 1000000
SIGMA_EPS == 1000

Prices == {-1, 0, 1, 2, 3, 4}
Vols == {-100, 0, 1, 50, 100, 50000}
Minutes == {-100, 0, 1, 100, 900}

\* math.log(n) in 1e-6 for the positive prices
LnTable == <<0, 693147, 1098612, 1386294>>

\* math.log(current_price / strike_price), line 57
\* (faulty variant: the strike is left out)
log_of_price_only(current_price, strike_price) == LnTable[current_price]
log_ratio(current_price, strike_price) ==
    LnTable[current_price] - LnTable[strike_price]

\* math.sqrt(minutes_remaining) in 1e-1; exact on the squares of Minutes
sqrt_tenths(m) == CHOOSE r \in 0..m : r * r <= m /\ m < (r + 1) * (r + 1)

Abs(x) == IF x < 0 THEN -x ELSE x

\* a / b in 1e-3 for a and b in the same unit, b # 0, rounded to nearest
\* (computed in parts to stay within 32-bit integers)
float_div(a, b) ==
    LET q == Abs(a) \div Abs(b)
        r == Abs(a) % Abs(b)
        z == q * 1000 + (r * 1000 + Abs(b) \div 2) \div Abs(b)
    IN  IF (a < 0) = (b < 0) THEN z ELSE -z

\* scipy.stats.norm.cdf at 0.0, 0.1, ..., 5.0, in 1e-6
PhiTable ==
    <<500000, 539828, 579260, 617911, 655422, 691462, 725747, 758036,
      788145, 815940, 841345, 864334, 884930, 903200, 919243, 933193,
      945201, 955435, 964070, 971283, 977250, 982136, 986097, 989276,
      991802, 993790, 995339, 996533, 997445, 998134, 998650, 999032,
      999313, 999517, 999663, 999767, 999841, 999892, 999928, 999952,
      999968, 999979, 999987, 999991, 999995, 999997, 999998, 999999,
      999999, 1000000, 1000000>>

\* norm.cdf(z), z in 1e-3: the table, linear between its points, 1.0 from
\* 5.0 on and mirrored for z < 0
\* (faulty variant: erf(z / sqrt(2)) = 2 * cdf(z) - 1 taken for the cdf)
norm_cdf_as_erf(z) ==
    LET a == Abs(z)
        k == a \div 100
        v == IF a >= 5000 THEN ONE
             ELSE PhiTable[k + 1]
                  + ((PhiTable[k + 2] - PhiTable[k + 1]) * (a % 100)) \div 100
    IN  IF z >= 0 THEN 2 * v - ONE ELSE ONE - 2 * v
norm_cdf(z) ==
    LET a == Abs(z)
        k == a \div 100
        v == IF a >= 5000 THEN ONE
             ELSE PhiTable[k + 1]
                  + ((PhiTable[k + 2] - PhiTable[k + 1]) * (a % 100)) \div 100
    IN  IF z >= 0 THEN v ELSE ONE - v

\* lines 51-54
\* (faulty variant: >= instead of >)
expired_result_at_or_above(current_price, strike_price) ==
    IF current_price >= strike_price
    THEN [fair_value_yes |-> ONE, fair_value_no |-> 0]
    ELSE [fair_value_yes |-> 0, fair_value_no |-> ONE]
expired_result(current_price, strike_price) ==
    IF current_price > strike_price
    THEN [fair_value_yes |-> ONE, fair_value_no |-> 0]
    ELSE [fair_value_yes |-> 0, fair_value_no |-> ONE]

\* lines 60-63
\* (variant: sigma_remaining floored at 0.001 instead of replaced at zero)
sigma_floored(volatility_1m, minutes_remaining) ==
    LET sigma_remaining == volatility_1m * sqrt_tenths(minutes_remaining)
    IN  IF sigma_remaining < SIGMA_EPS THEN SIGMA_EPS ELSE sigma_remaining
sigma_of(volatility_1m, minutes_remaining) ==
    LET sigma_remaining == volatility_1m * sqrt_tenths(minutes_remaining)
    IN  IF sigma_remaining = 0 THEN SIGMA_EPS ELSE sigma_remaining

\* lines 56-78
probabilistic_result(current_price, strike_price, volatility_1m, minutes_remaining) ==
    LET distance        == log_ratio(current_price, strike_price)
        sigma_remaining == sigma_of(volatility_1m, minutes_remaining)
        z_score         == float_div(distance, sigma_remaining)
        fair_value_yes  == norm_cdf(z_score)
    IN  [fair_value_yes  |-> fair_value_yes,
         fair_value_no   |-> ONE - fair_value_yes,
         z_score         |-> z_score,
         distance        |-> distance,
         sigma_remaining |-> sigma_remaining]

\* PricingModel.compute_fair_value, lines 45-78
\* (faulty variant: the expiry branch before the price check)
compute_fair_value_expiry_first(current_price, strike_price, volatility_1m, minutes_remaining) ==
    IF minutes_remaining <= 0
    THEN expired_result(current_price, strike_price)
    ELSE IF current_price <= 0 \/ strike_price <= 0
    THEN [error |-> "Invalid prices"]
    ELSE probabilistic_result(current_price, strike_price, volatility_1m,
                              minutes_remaining)
compute_fair_value(current_price, strike_price, volatility_1m, minutes_remaining) ==
    IF current_price <= 0 \/ strike_price <= 0
    THEN [error |-> "Invalid prices"]
    ELSE IF minutes_remaining <= 0
    THEN expired_result(current_price, strike_price)
    ELSE probabilistic_result(current_price, strike_price, volatility_1m,
                              minutes_remaining)

ComputeFairValue ==
    /\ fv_in # None
    /\ fv_out = None
    /\ fv_out' = Some(compute_fair_value(fv_in.current_price,
                                         fv_in.strike_price,
                                         fv_in.volatility_1m,
                                         fv_in.minutes_remaining))
    /\ UNCHANGED <<fv_in, mp_in, mp_out, vol_in, vol_out, cacheVars, bookVars,
                   listenerVars, auxVars>>

InitPricing ==
    /\ fv_in \in [current_price : Prices, strike_price : Prices,
                  volatility_1m : Vols, minutes_remaining : Minutes]
    /\ fv_out = None
    /\ IdleMisprice
    /\ IdleVol
    /\ InitCacheEmpty
    /\ InitBookIdle
    /\ InitListenersIdle

NextPricing == ComputeFairValue

SpecPricing == InitPricing /\ [][NextPricing]_vars

----------------------------------------------------------------------------
\* PricingModel.find_misprice (src/src/pricing.py).  Market prices, fair
\* values and edges are in eighths: every eighth is a binary floating-point
\* number, so the subtraction and the comparisons of the code are exact on
\* these inputs.

\* the literal 1 of the range test, in eighths
EIGHTHS == 8

Markets == {-1, 0, 2, 4, 5, 6, 8, 9}

Fairs == {0, 2, 4, 5, 8}

MinEdges == {0, 1, 2}

\* Python's "x is None" for a returned value
IsNone(r) == DOMAIN r = {}

find_misprice(market_price_yes, fair_value_yes, min_edge) ==
    IF market_price_yes < 0 \/ market_price_yes > EIGHTHS THEN None
    ELSE LET edge == Abs(market_price_yes - fair_value_yes)
         IN  IF edge < min_edge THEN None
             ELSE IF market_price_yes > fair_value_yes
                  THEN [type |-> "overpriced_yes",
                        market_price |-> market_price_yes,
                        fair_value |-> fair_value_yes,
                        edge |-> edge,
                        action |-> "short_yes (buy_no)"]
                  ELSE [type |-> "underpriced_yes",
                        market_price |-> market_price_yes,
                        fair_value |-> fair_value_yes,
                        edge |-> edge,
                        action |-> "long_yes"]

\* one call of find_misprice on the drawn arguments
FindMisprice ==
    /\ mp_in # None
    /\ mp_out = None
    /\ mp_out' = Some(find_misprice(mp_in[1].market_price_yes,
                                    mp_in[1].fair_value_yes,
                                    mp_in[1].min_edge))
    /\ UNCHANGED <<mp_in, fv_in, fv_out, vol_in, vol_out, cacheVars, bookVars,
                   listenerVars, auxVars>>

InitMisprice ==
    /\ mp_in \in {Some(a) : a \in [market_price_yes : Markets,
                                   fair_value_yes : Fairs,
                                   min_edge : MinEdges]}
    /\ mp_out = None
    /\ IdleFairValue
    /\ IdleVol
    /\ InitCacheEmpty
    /\ InitBookIdle
    /\ InitListenersIdle

NextMisprice == FindMisprice

SpecMisprice == InitMisprice /\ [][NextMisprice]_vars

----------------------------------------------------------------------------
\* PricingModel.estimate_vol_from_prices (src/src/pricing.py).  Prices are
\* whole units, log returns and volatilities are in 1e-4, the variance is
\* in 1e-8.

\* the default volatility 0.01, in 1e-4
DEFAULT_VOL == 100

HistPrices == {0, 1, 2, 3}

RECURSIVE SeqsUpTo(_, _)
\* the sequences over S of length at most n
SeqsUpTo(S, n) ==
    IF n = 0 THEN {<<>>}
    ELSE LET shorter == SeqsUpTo(S, n - 1)
         IN  shorter \cup {Append(h, x) : h \in {g \in shorter : Len(g) = n - 1},
                                          x \in S}

Histories == SeqsUpTo(HistPrices, MaxHist)

\* a / n for an integer n > 0, rounded to nearest
round_div(a, n) ==
    IF a >= 0 THEN (2 * a + n) \div (2 * n) ELSE -((2 * (-a) + n) \div (2 * n))

\* math.log(price_history[i] / price_history[i-1]) in 1e-4, line 134
log_return(price, previous) == round_div(log_ratio(price, previous), 100)

RECURSIVE returns_from(_, _)
\* the loop of lines 131-135 from index i on (i counts from 2 here, as
\* sequences start at 1): one return per adjacent pair of positive prices
returns_from(price_history, i) ==
    IF i > Len(price_history) THEN <<>>
    ELSE IF price_history[i] > 0 /\ price_history[i - 1] > 0
         THEN <<log_return(price_history[i], price_history[i - 1])>>
              \o returns_from(price_history, i + 1)
         ELSE returns_from(price_history, i + 1)

RECURSIVE sum_of(_)
sum_of(xs) == IF xs = <<>> THEN 0 ELSE Head(xs) + sum_of(Tail(xs))

RECURSIVE sqrt_between(_, _, _)
\* the largest r in lo..hi with r * r <= v, by bisection
sqrt_between(v, lo, hi) ==
    IF lo >= hi THEN lo
    ELSE LET mid == (lo + hi + 1) \div 2
         IN  IF mid * mid <= v THEN sqrt_between(v, mid, hi)
             ELSE sqrt_between(v, lo, mid - 1)

\* math.sqrt(variance), variance in 1e-8 and the root in 1e-4, to nearest
sqrt_of(v) ==
    LET r == sqrt_between(v, 0, 40000)
    IN  IF v - r * r > r THEN r + 1 ELSE r

\* lines 141-143: the population standard deviation of the returns
std_dev(returns) ==
    LET mean_ret == round_div(sum_of(returns), Len(returns))
        squares == [i \in 1..Len(returns) |->
                       (returns[i] - mean_ret) * (returns[i] - mean_ret)]
        variance == round_div(sum_of(squares), Len(returns))
    IN  sqrt_of(variance)

estimate_vol_from_prices(price_history) ==
    IF Len(price_history) < 2 THEN DEFAULT_VOL
    ELSE LET returns == returns_from(price_history, 2)
         IN  IF returns = <<>> THEN DEFAULT_VOL ELSE std_dev(returns)

\* one call of estimate_vol_from_prices on the drawn history
EstimateVol ==
    /\ vol_in # None
    /\ vol_out = None
    /\ vol_out' = Some(estimate_vol_from_prices(vol_in[1]))
    /\ UNCHANGED <<vol_in, fv_in, fv_out, mp_in, mp_out, cacheVars, bookVars,
                   listenerVars, auxVars>>

InitVol ==
    /\ vol_in \in {Some(h) : h \in Histories}
    /\ vol_out = None
    /\ IdleFairValue
    /\ IdleMisprice
    /\ InitCacheEmpty
    /\ InitBookIdle
    /\ InitListenersIdle

NextVol == EstimateVol

SpecVol == InitVol /\ [][NextVol]_vars

----------------------------------------------------------------------------
(* rtds_prices_listener (src/src/polymarket_capturer.py, lines 185-254) *)

\* A JSON value as json.loads returns it: its type t, the number n (the
\* length, for a list) and the text s.  A text is a sequence of pieces: a
\* symbol, a timestamp or a value is kept character by character, since the
\* code splits, lower-cases, cuts and parses it; a topic is only compared
\* for equality and is kept in one piece.  A key that a dict does not hold
\* is "absent".
J(t, n, s) == [t |-> t, n |-> n, s |-> s]

Absent == J("absent", 0, <<>>)

Null == J("null", 0, <<>>)

Num(n) == J("num", n, <<>>)

Str(s) == J("str", 0, s)

List(len) == J("list", len, <<>>)

Obj == J("obj", 1, <<>>)

\* bool(x) of a JSON value
Truthy(j) ==
    CASE j.t \in {"absent", "null"} -> FALSE
      [] j.t = "num" -> j.n # 0
      [] j.t = "str" -> j.s # <<>>
      [] j.t \in {"list", "obj"} -> j.n > 0

\* d.get(key) is None
IsNoneValue(j) == j.t \in {"absent", "null"}

\* what an evaluation gives: a value, or an exception
Ok(v) == [raised |-> FALSE, v |-> v]

Raised == [raised |-> TRUE, v |-> 0]

Digits == <<"0", "1", "2", "3", "4", "5", "6", "7", "8", "9">>

IsDigit(c) == \E i \in 1..10 : Digits[i] = c

DigitValue(c) == (CHOOSE i \in 1..10 : Digits[i] = c) - 1

RECURSIVE digits_value(_)
\* the number a non-empty sequence of digits spells
digits_value(chars) ==
    IF Len(chars) = 1 THEN DigitValue(chars[1])
    ELSE 10 * digits_value(SubSeq(chars, 1, Len(chars) - 1))
         + DigitValue(chars[Len(chars)])

\* int(text) / float(text) for a text of digits with an optional sign;
\* anything else raises ValueError
parse_number(chars) ==
    LET neg  == chars # <<>> /\ chars[1] = "-"
        body == IF neg THEN Tail(chars) ELSE chars
    IN  IF body = <<>> \/ \E i \in 1..Len(body) : ~IsDigit(body[i])
        THEN Raised
        ELSE Ok(IF neg THEN -digits_value(body) ELSE digits_value(body))

\* int(ts), line 235 / 245: a number as it is, a text parsed, TypeError for
\* a list or a dict
to_int(j) ==
    CASE j.t = "num" -> Ok(j.n)
      [] j.t = "str" -> parse_number(j.s)
      [] OTHER -> Raised

\* float(val), line 235 / 245
to_float_value(j) ==
    CASE j.t = "num" -> Ok(j.n)
      [] j.t = "str" -> parse_number(j.s)
      [] OTHER -> Raised

LowerCase ==
    [B |-> "b", T |-> "t", C |-> "c", U |-> "u", S |-> "s", D |-> "d",
     E |-> "e", H |-> "h", O |-> "o", G |-> "g"]

\* str.lower()
\* (faulty variant: the text is left as it is)
lower_identity(chars) == chars
lower(chars) ==
    [i \in 1..Len(chars) |->
        IF chars[i] \in DOMAIN LowerCase THEN LowerCase[chars[i]] ELSE chars[i]]

\* "/" in sym
has_slash(chars) == \E i \in 1..Len(chars) : chars[i] = "/"

\* sym.split("/")[0]
split_head(chars) ==
    IF has_slash(chars)
    THEN SubSeq(chars, 1,
                (CHOOSE i \in 1..Len(chars) :
                    chars[i] = "/" /\ \A k \in 1..(i - 1) : chars[k] # "/") - 1)
    ELSE chars

\* sym.endswith("usdt")
ends_with_usdt(chars) ==
    /\ Len(chars) >= 4
    /\ SubSeq(chars, Len(chars) - 3, Len(chars)) = <<"u", "s", "d", "t">>

\* sym[:-4]
cut_last_four(chars) ==
    IF Len(chars) > 4 THEN SubSeq(chars, 1, Len(chars) - 4) ELSE <<>>

\* the set {"btc", "eth", "sol", "xrp"} of lines 233 and 243, each name
\* with its characters
KnownAssets ==
    [btc |-> <<"b", "t", "c">>, eth |-> <<"e", "t", "h">>,
     sol |-> <<"s", "o", "l">>, xrp |-> <<"x", "r", "p">>]

\* asset in {"btc", "eth", "sol", "xrp"}
is_known_asset(chars) == \E a \in DOMAIN KnownAssets : KnownAssets[a] = chars

asset_name(chars) == CHOOSE a \in DOMAIN KnownAssets : KnownAssets[a] = chars

CHAINLINK == <<"crypto_prices_chainlink">>

BINANCE == <<"crypto_prices">>

BTC_USD == <<"B", "T", "C", "/", "U", "S", "D">>

\* An inbound frame: blank text, text that is not JSON, or the JSON value
\* it spells, with the keys the listener reads when that value is an object.
Frame(kind, json, topic, payload, p_topic, timestamp, value, symbol) ==
    [kind |-> kind, json |-> json, topic |-> topic, payload |-> payload,
     p_topic |-> p_topic, timestamp |-> timestamp, value |-> value,
     symbol |-> symbol]

\* {"topic": topic, "payload": {"timestamp": .., "value": .., "symbol": ..}}
Update(topic, timestamp, value, symbol) ==
    Frame("json", Obj, Str(topic), Obj, Absent, timestamp, value, symbol)

\* a frame whose JSON value is j, without the keys of an update
Bare(kind, j, topic, payload) ==
    Frame(kind, j, topic, payload, Absent, Absent, Absent, Absent)

\* The frames the connection may deliver.
Frames == <<
    Bare("blank", Absent, Absent, Absent),
    Bare("garbage", Absent, Absent, Absent),
    Bare("json", List(2), Absent, Absent),
    Bare("json", Obj, Str(CHAINLINK), Absent),
    Bare("json", Obj, Str(BINANCE), Str(<<"x">>)),
    Bare("json", Obj, Absent, Null),
    Update(CHAINLINK, Num(1000), Num(7), Str(BTC_USD)),
    Update(CHAINLINK, Num(0), Num(7), Str(<<"e", "t", "h", "/", "u", "s", "d">>)),
    Frame("json", Obj, Absent, Obj, Str(CHAINLINK), Num(3000), Num(7),
          Str(BTC_USD)),
    Update(CHAINLINK, Num(1000), Num(0), Str(BTC_USD)),
    Update(CHAINLINK, Num(1000), Num(-5), Str(BTC_USD)),
    Update(BINANCE, Num(1000), Num(7),
           Str(<<"B", "T", "C", "U", "S", "D", "T">>)),
    Update(BINANCE, Str(<<"1", "0", "0", "0">>), Str(<<"7">>),
           Str(<<"e", "t", "h", "u", "s", "d", "t">>)),
    Update(BINANCE, Num(1000), Num(7),
           Str(<<"d", "o", "g", "e", "u", "s", "d", "t">>)),
    Update(CHAINLINK, Num(1000), Num(7),
           Str(<<"D", "O", "G", "E", "/", "U", "S", "D">>)),
    Update(CHAINLINK, Num(1000), Num(7),
           Str(<<"b", "t", "c", "u", "s", "d">>)),
    Update(CHAINLINK, Num(1000), Num(7), Str(<<"/", "U", "S", "D">>)),
    Update(<<"comments">>, Num(1000), Num(7), Str(BTC_USD)),
    Update(CHAINLINK, Absent, Num(7), Str(BTC_USD)),
    Update(BINANCE, Num(1000), Null,
           Str(<<"b", "t", "c", "u", "s", "d", "t">>)),
    Update(CHAINLINK, Str(<<"x">>), Num(7), Str(BTC_USD)),
    Update(BINANCE, Num(1000), Str(<<"x">>),
           Str(<<"b", "t", "c", "u", "s", "d", "t">>)),
    Update(CHAINLINK, Num(1000), Num(7), Num(5)),
    Update(BINANCE, Num(1000), Num(7), Absent),
    Update(BINANCE, Num(1000), Num(7), Num(5)),
    Update(BINANCE, Num(1000), Num(7), Str(<<"u", "s", "d", "t">>)),
    Update(BINANCE, Num(1000), Num(7), Str(BTC_USD)) >>

\* what handling one frame comes to: the loop goes on ("continue") or an
\* exception leaves the "async with" block ("raise"), after the add() calls
\* made
Continue == [outcome |-> "continue", adds |-> <<>>]

Raise == [outcome |-> "raise", adds |-> <<>>]

Added(source, asset, ts_ms, price) ==
    [outcome |-> "continue",
     adds |-> <<[key |-> <<source, asset>>, ts_ms |-> ts_ms, price |-> price]>>]

\* line 221: msg.get("topic") or msg.get("payload", {}).get("topic")
topic_of(m) ==
    IF Truthy(m.topic) THEN Ok(m.topic)
    ELSE CASE m.payload.t = "absent" -> Ok(Absent)
           [] m.payload.t = "obj" -> Ok(m.p_topic)
           [] OTHER -> Raised

\* lines 234-237 and 244-247: try: cache.add(tag, asset, int(ts), float(val))
\*                            except Exception: continue
try_add(source, asset, ts, val) ==
    LET ts_ms == to_int(ts)
        price == to_float_value(val)
    IN  IF ts_ms.raised \/ price.raised THEN Continue
        ELSE Added(source, asset, ts_ms.v, price.v)

\* lines 231-237
on_chainlink(ts, val, sym) ==
    IF ~Truthy(sym) THEN Continue
    ELSE CASE sym.t = "num" -> Raise
           [] sym.t = "str" ->
                IF ~has_slash(sym.s) THEN Continue
                ELSE LET asset == lower(split_head(sym.s))
                     IN  IF asset # <<>> /\ is_known_asset(asset)
                         THEN try_add("cl", asset_name(asset), ts, val)
                         ELSE Continue
           [] OTHER -> Continue

\* lines 239-247
on_binance(ts, val, sym) ==
    IF Truthy(sym) /\ sym.t # "str" THEN Raise
    ELSE LET text == lower(IF Truthy(sym) THEN sym.s ELSE <<>>)
         IN  IF ends_with_usdt(text) /\ is_known_asset(cut_last_four(text))
             THEN try_add("bn", asset_name(cut_last_four(text)), ts, val)
             ELSE Continue

\* lines 213-247: the body of the receive loop for one frame
handle_frame(m) ==
    IF m.kind = "blank" \/ m.kind = "garbage" THEN Continue
    ELSE IF m.json.t # "obj" THEN Raise
    ELSE LET topic == topic_of(m)
         IN  IF topic.raised THEN Raise
             ELSE IF Truthy(m.payload) /\ m.payload.t # "obj" THEN Raise
             ELSE LET has == Truthy(m.payload)
                      ts  == IF has THEN m.timestamp ELSE Absent
                      val == IF has THEN m.value ELSE Absent
                      sym == IF has THEN m.symbol ELSE Absent
                  IN  IF IsNoneValue(ts) \/ IsNoneValue(val) THEN Continue
                      ELSE IF topic.v = Str(CHAINLINK)
                           THEN on_chainlink(ts, val, sym)
                      ELSE IF topic.v = Str(BINANCE)
                           THEN on_binance(ts, val, sym)
                      ELSE Continue

\* asyncio.sleep(0.2), line 254, in ms
RECONNECT_DELAY_MS == 200

\* the delay before a reconnect, whatever the number of failures so far
\* (faulty variant: the delay doubles with every failure in a row)
sleep_delay_doubling(consecutive_failures) ==
    IF consecutive_failures > 1 THEN 2 * RECONNECT_DELAY_MS
    ELSE RECONNECT_DELAY_MS
sleep_delay(consecutive_failures) == RECONNECT_DELAY_MS

\* line 204: one ws.send(sub_msg) right after every connect
\* (faulty variant: only the first connection subscribes)
subscriptions_first_only(reconnect) == IF reconnect THEN 0 ELSE 1
subscriptions_on_connect(reconnect) == 1

\* line 195: while not stop_evt.is_set()
loop_head(stop) == IF stop THEN "done" ELSE "connecting"

\* line 207: while not stop_evt.is_set(); leaving the loop leaves the
\* "async with" block, which closes the connection
inner_loop(stop) == IF stop THEN "closing" ELSE "receiving"

\* lines 210-211: except asyncio.TimeoutError: break
\* (faulty variant: the timeout ends the listener)
after_timeout_return == "done"
after_timeout == "closing"

\* lines 249-254 and back to 195: the exception, if any, is swallowed, then
\* the sleep unless the stop event is set
after_block(stop) == IF stop THEN "done" ELSE "sleeping"

Min(a, b) == IF a < b THEN a ELSE b

\* history kept at a failure
Fail(kind) ==
    /\ fail_kind' = kind
    /\ steps' = <<>>
    /\ fails' = Min(fails + 1, MaxFails)

\* history kept when the listener does something while it recovers
Step(what) ==
    steps' = IF fail_kind # "none" THEN Append(steps, what) ELSE steps

\* leaving the try block towards line 252
ToLine252 ==
    /\ rtds_pc' = after_block(stop_evt)
    /\ sleep_ms' = IF stop_evt THEN sleep_ms ELSE sleep_delay(fails')

\* the call of rtds_prices_listener runs up to its first await
RtdsStart ==
    /\ rtds_pc = "start"
    /\ rtds_pc' = loop_head(stop_evt)
    /\ UNCHANGED <<stop_evt, ws_open, subs_sent, read_any, reconnected,
                   fail_kind, steps, fails, sleep_ms, handled>>
    /\ UNCHANGED <<cacheVars, bookVars, pricingVars, clobVars, auxVars>>

\* websockets.connect succeeds (lines 197-204): the subscription is sent
RtdsConnected ==
    /\ rtds_pc = "connecting"
    /\ ws_open' = TRUE
    /\ subs_sent' = subscriptions_on_connect(reconnected)
    /\ read_any' = FALSE
    /\ reconnected' = TRUE
    /\ fail_kind' = "none"
    /\ steps' = <<>>
    /\ rtds_pc' = "subscribing"
    /\ UNCHANGED <<stop_evt, fails, sleep_ms, handled>>
    /\ UNCHANGED <<cacheVars, bookVars, pricingVars, clobVars, auxVars>>

\* websockets.connect raises
RtdsConnectFails ==
    /\ rtds_pc = "connecting"
    /\ Fail("connect")
    /\ ToLine252
    /\ UNCHANGED <<stop_evt, ws_open, subs_sent, read_any, reconnected, handled>>
    /\ UNCHANGED <<cacheVars, bookVars, pricingVars, clobVars, auxVars>>

\* ws.send(sub_msg) returns (line 204), the receive loop starts (line 207)
RtdsSubscribed ==
    /\ rtds_pc = "subscribing"
    /\ rtds_pc' = inner_loop(stop_evt)
    /\ UNCHANGED <<stop_evt, ws_open, subs_sent, read_any, reconnected,
                   fail_kind, steps, fails, sleep_ms, handled>>
    /\ UNCHANGED <<cacheVars, bookVars, pricingVars, clobVars, auxVars>>

\* ws.send(sub_msg) raises
RtdsSubscribeFails ==
    /\ rtds_pc = "subscribing"
    /\ Fail("subscribe")
    /\ rtds_pc' = "closing"
    /\ UNCHANGED <<stop_evt, ws_open, subs_sent, read_any, reconnected,
                   sleep_ms, handled>>
    /\ UNCHANGED <<cacheVars, bookVars, pricingVars, clobVars, auxVars>>

\* no frame within the 30 s of asyncio.wait_for (lines 209-211)
RtdsRecvTimeout ==
    /\ rtds_pc = "receiving"
    /\ Fail("timeout")
    /\ rtds_pc' = after_timeout
    /\ UNCHANGED <<stop_evt, ws_open, subs_sent, read_any, reconnected,
                   sleep_ms, handled>>
    /\ UNCHANGED <<cacheVars, bookVars, pricingVars, clobVars, auxVars>>

\* ws.recv() raises (the connection dropped)
RtdsRecvFails ==
    /\ rtds_pc = "receiving"
    /\ Fail("recv")
    /\ rtds_pc' = "closing"
    /\ UNCHANGED <<stop_evt, ws_open, subs_sent, read_any, reconnected,
                   sleep_ms, handled>>
    /\ UNCHANGED <<cacheVars, bookVars, pricingVars, clobVars, auxVars>>

\* ws.recv() returns frame i of Frames and the loop body handles it (lines
\* 209-247), up to the next await
RtdsRecvFrame(i) ==
    /\ rtds_pc = "receiving"
    /\ LET r == handle_frame(Frames[i])
       IN  /\ r.adds # <<>> => n_adds < MaxOracleAdds
           /\ IF r.adds # <<>>
              THEN CacheAdd(r.adds[1].key, r.adds[1].ts_ms, r.adds[1].price)
              ELSE UNCHANGED cacheVars
           /\ IF r.outcome = "raise"
              THEN /\ Fail("handler")
                   /\ rtds_pc' = "closing"
              ELSE /\ fails' = 0
                   /\ rtds_pc' = inner_loop(stop_evt)
                   /\ UNCHANGED <<fail_kind, steps>>
           /\ handled' = Some([frame |-> i,
                               outcome |-> r.outcome,
                               adds |-> r.adds,
                               changed |-> (cache_ts' # cache_ts
                                            \/ cache_px' # cache_px),
                               next_pc |-> rtds_pc',
                               stop |-> stop_evt])
    /\ read_any' = TRUE
    /\ UNCHANGED <<stop_evt, ws_open, subs_sent, reconnected, sleep_ms>>
    /\ UNCHANGED <<bookVars, pricingVars, clobVars, auxVars>>

\* the "async with" block has closed the connection; then lines 249-254
RtdsClosed ==
    /\ rtds_pc = "closing"
    /\ ws_open' = FALSE
    /\ Step("close")
    /\ UNCHANGED <<stop_evt, subs_sent, read_any, reconnected, fail_kind,
                   fails, handled>>
    /\ ToLine252
    /\ UNCHANGED <<cacheVars, bookVars, pricingVars, clobVars, auxVars>>

\* asyncio.sleep(0.2) returns; then line 195
RtdsSlept ==
    /\ rtds_pc = "sleeping"
    /\ Step("wait")
    /\ rtds_pc' = loop_head(stop_evt)
    /\ UNCHANGED <<stop_evt, ws_open, subs_sent, read_any, reconnected,
                   fail_kind, fails, sleep_ms, handled>>
    /\ UNCHANGED <<cacheVars, bookVars, pricingVars, clobVars, auxVars>>

\* another task calls stop_evt.set()
RtdsStop ==
    /\ rtds_pc # "idle"
    /\ ~stop_evt
    /\ stop_evt' = TRUE
    /\ UNCHANGED <<rtds_pc, ws_open, subs_sent, read_any, reconnected,
                   fail_kind, steps, fails, sleep_ms, handled>>
    /\ UNCHANGED <<cacheVars, bookVars, pricingVars, clobVars, auxVars>>

InitOracle ==
    /\ rtds_pc = "start"
    /\ stop_evt \in BOOLEAN
    /\ ws_open = FALSE
    /\ subs_sent = 0
    /\ read_any = FALSE
    /\ reconnected = FALSE
    /\ fail_kind = "none"
    /\ steps = <<>>
    /\ fails = 0
    /\ sleep_ms = 0
    /\ handled = None
    /\ IdleClob
    /\ InitAuxIdle
    /\ InitCacheEmpty
    /\ InitBookIdle
    /\ InitPricingIdle

\* the steps of the listener task
RtdsListener ==
    \/ RtdsStart
    \/ RtdsConnected
    \/ RtdsConnectFails
    \/ RtdsSubscribed
    \/ RtdsSubscribeFails
    \/ RtdsRecvTimeout
    \/ RtdsRecvFails
    \/ \E i \in 1..Len(Frames) : RtdsRecvFrame(i)
    \/ RtdsClosed
    \/ RtdsSlept

NextOracle == RtdsListener \/ RtdsStop

SpecOracle == InitOracle /\ [][NextOracle]_vars

\* Every await of the listener returns or raises within a bounded time
\* (open_timeout, the 30 s of wait_for, close_timeout, the sleep), so the
\* listener task always takes its next step.
SpecOracleFair == SpecOracle /\ WF_vars(RtdsListener)

----------------------------------------------------------------------------
(* orderbook_listener (src/src/polymarket_capturer.py, lines 256-298) *)

\* The messages the connection may deliver: text that is not JSON, a JSON
\* object, a JSON array of objects, an empty array, another JSON value.
\* An object is named by a number.
ClobFrames == <<
    [kind |-> "garbage", items |-> <<>>],
    [kind |-> "object", items |-> <<1>>],
    [kind |-> "array", items |-> <<2, 3>>],
    [kind |-> "array", items |-> <<>>],
    [kind |-> "other", items |-> <<>>] >>

\* variant: only the first element of an array is dispatched
clob_events_first_only(frame) ==
    CASE frame.kind = "object" -> Some(frame.items)
      [] frame.kind = "array" -> Some(SubSeq(frame.items, 1, 1))
      [] OTHER -> None

\* lines 280-289: the events of a message, None where the loop continues
clob_events_of(frame) ==
    CASE frame.kind = "object" -> Some(frame.items)
      [] frame.kind = "array" -> Some(frame.items)
      [] OTHER -> None

\* ping_task.cancel(), line 295
cancelled(ping) ==
    IF ping \in {"ready", "sending", "sleeping"} THEN "cancelled" ELSE ping

\* line 266: while not stop_evt.is_set(), then ws.send("PING")
ping_loop(stop) == IF stop THEN "returned" ELSE "sending"

\* the call of orderbook_listener runs up to websockets.connect (line 261)
ClobStart ==
    /\ clob_pc = "start"
    /\ clob_pc' = "connecting"
    /\ UNCHANGED <<clob_stop, clob_ws_open, clob_subs, ping_pc, clob_events,
                   clob_calls, clob_end>>
    /\ UNCHANGED <<clob_rcvd, cacheVars, bookVars, pricingVars, oracleVars, auxVars>>

\* websockets.connect succeeds; the subscription is sent (line 262)
ClobConnected ==
    /\ clob_pc = "connecting"
    /\ clob_ws_open' = TRUE
    /\ clob_subs' = clob_subs + 1
    /\ clob_pc' = "subscribing"
    /\ UNCHANGED <<clob_stop, ping_pc, clob_events, clob_calls, clob_end>>
    /\ UNCHANGED <<clob_rcvd, cacheVars, bookVars, pricingVars, oracleVars, auxVars>>

\* websockets.connect raises: lines 297-298, and the listener returns
ClobConnectFails ==
    /\ clob_pc = "connecting"
    /\ clob_end' = "connect"
    /\ clob_pc' = "closed"
    /\ UNCHANGED <<clob_stop, clob_ws_open, clob_subs, ping_pc, clob_events,
                   clob_calls>>
    /\ UNCHANGED <<clob_rcvd, cacheVars, bookVars, pricingVars, oracleVars, auxVars>>

\* ws.send returns; the pinger task is created (line 273) and the listener
\* waits for the first message (line 276)
ClobSubscribed ==
    /\ clob_pc = "subscribing"
    /\ ping_pc' = "ready"
    /\ clob_pc' = "streaming"
    /\ UNCHANGED <<clob_stop, clob_ws_open, clob_subs, clob_events,
                   clob_calls, clob_end>>
    /\ UNCHANGED <<clob_rcvd, cacheVars, bookVars, pricingVars, oracleVars, auxVars>>

\* ws.send raises: the "async with" block is left
ClobSubscribeFails ==
    /\ clob_pc = "subscribing"
    /\ clob_end' = "subscribe"
    /\ clob_pc' = "closing"
    /\ UNCHANGED <<clob_stop, clob_ws_open, clob_subs, ping_pc, clob_events,
                   clob_calls>>
    /\ UNCHANGED <<clob_rcvd, cacheVars, bookVars, pricingVars, oracleVars, auxVars>>

\* "async for raw in ws" yields message i of ClobFrames (lines 276-292): the
\* stop test, the parse and the call of the callback on the first event
ClobRecv(i) ==
    /\ clob_pc = "streaming"
    /\ Len(clob_rcvd) < MaxClobMsgs
    /\ clob_rcvd' = Append(clob_rcvd, [frame |-> i, stopped |-> clob_stop])
    /\ LET events == clob_events_of(ClobFrames[i])
       IN  IF clob_stop
           THEN /\ clob_end' = "stop"
                /\ ping_pc' = cancelled(ping_pc)
                /\ clob_pc' = "closing"
                /\ UNCHANGED <<clob_events, clob_calls>>
           ELSE IF events = None \/ events = Some(<<>>)
           THEN UNCHANGED <<clob_pc, ping_pc, clob_events, clob_calls, clob_end>>
           ELSE /\ Len(clob_calls) + Len(events[1]) <= MaxClobCalls
                /\ clob_events' = events[1]
                /\ clob_calls' = Append(clob_calls, events[1][1])
                /\ clob_pc' = "dispatching"
                /\ UNCHANGED <<ping_pc, clob_end>>
    /\ UNCHANGED <<clob_stop, clob_ws_open, clob_subs>>
    /\ UNCHANGED <<cacheVars, bookVars, pricingVars, oracleVars, auxVars>>

\* "await callback(msg)" returns (line 292): the next event of the message,
\* or the next message
ClobCallbackReturns ==
    /\ clob_pc = "dispatching"
    /\ clob_events' = Tail(clob_events)
    /\ IF Tail(clob_events) # <<>>
       THEN /\ clob_calls' = Append(clob_calls, clob_events[2])
            /\ UNCHANGED clob_pc
       ELSE /\ clob_pc' = "streaming"
            /\ UNCHANGED clob_calls
    /\ UNCHANGED <<clob_stop, clob_ws_open, clob_subs, ping_pc, clob_end>>
    /\ UNCHANGED <<clob_rcvd, cacheVars, bookVars, pricingVars, oracleVars, auxVars>>

\* "await callback(msg)" raises: line 295, and the block is left
ClobCallbackRaises ==
    /\ clob_pc = "dispatching"
    /\ clob_events' = <<>>
    /\ clob_end' = "dispatch"
    /\ ping_pc' = cancelled(ping_pc)
    /\ clob_pc' = "closing"
    /\ UNCHANGED <<clob_stop, clob_ws_open, clob_subs, clob_calls>>
    /\ UNCHANGED <<clob_rcvd, cacheVars, bookVars, pricingVars, oracleVars, auxVars>>

\* the connection drops: "async for" ends or raises
ClobDropped ==
    /\ clob_pc = "streaming"
    /\ clob_end' = "drop"
    /\ ping_pc' = cancelled(ping_pc)
    /\ clob_pc' = "closing"
    /\ UNCHANGED <<clob_stop, clob_ws_open, clob_subs, clob_events,
                   clob_calls>>
    /\ UNCHANGED <<clob_rcvd, cacheVars, bookVars, pricingVars, oracleVars, auxVars>>

\* the "async with" block has closed the connection; the listener returns,
\* through lines 297-298 if an exception is under way
ClobClosed ==
    /\ clob_pc = "closing"
    /\ clob_ws_open' = FALSE
    /\ clob_pc' = "closed"
    /\ UNCHANGED <<clob_stop, clob_subs, ping_pc, clob_events, clob_calls,
                   clob_end>>
    /\ UNCHANGED <<clob_rcvd, cacheVars, bookVars, pricingVars, oracleVars, auxVars>>

\* the pinger task starts, or its sleep returns (lines 266-268)
PingLoop ==
    /\ ping_pc \in {"ready", "sleeping"}
    /\ ping_pc' = ping_loop(clob_stop)
    /\ UNCHANGED <<clob_pc, clob_stop, clob_ws_open, clob_subs, clob_events,
                   clob_calls, clob_end>>
    /\ UNCHANGED <<clob_rcvd, cacheVars, bookVars, pricingVars, oracleVars, auxVars>>

\* ws.send("PING") returns: asyncio.sleep(10), line 271
PingSent ==
    /\ ping_pc = "sending"
    /\ ping_pc' = "sleeping"
    /\ UNCHANGED <<clob_pc, clob_stop, clob_ws_open, clob_subs, clob_events,
                   clob_calls, clob_end>>
    /\ UNCHANGED <<clob_rcvd, cacheVars, bookVars, pricingVars, oracleVars, auxVars>>

\* ws.send("PING") raises: the pinger returns (lines 269-270)
PingFails ==
    /\ ping_pc = "sending"
    /\ ping_pc' = "returned"
    /\ UNCHANGED <<clob_pc, clob_stop, clob_ws_open, clob_subs, clob_events,
                   clob_calls, clob_end>>
    /\ UNCHANGED <<clob_rcvd, cacheVars, bookVars, pricingVars, oracleVars, auxVars>>

\* another task calls stop_evt.set()
ClobStop ==
    /\ clob_pc # "idle"
    /\ ~clob_stop
    /\ clob_stop' = TRUE
    /\ UNCHANGED <<clob_pc, clob_ws_open, clob_subs, ping_pc, clob_events,
                   clob_calls, clob_end>>
    /\ UNCHANGED <<clob_rcvd, cacheVars, bookVars, pricingVars, oracleVars, auxVars>>

InitClob ==
    /\ clob_pc = "start"
    /\ clob_stop \in BOOLEAN
    /\ clob_ws_open = FALSE
    /\ clob_subs = 0
    /\ ping_pc = "none"
    /\ clob_events = <<>>
    /\ clob_calls = <<>>
    /\ clob_end = "none"
    /\ clob_rcvd = <<>>
    /\ IdleOracle
    /\ InitAuxIdle
    /\ InitCacheEmpty
    /\ InitBookIdle
    /\ InitPricingIdle

NextClob ==
    \/ ClobStart
    \/ ClobConnected
    \/ ClobConnectFails
    \/ ClobSubscribed
    \/ ClobSubscribeFails
    \/ \E i \in 1..Len(ClobFrames) : ClobRecv(i)
    \/ ClobCallbackReturns
    \/ ClobCallbackRaises
    \/ ClobDropped
    \/ ClobClosed
    \/ PingLoop
    \/ PingSent
    \/ PingFails
    \/ ClobStop

SpecClob == InitClob /\ [][NextClob]_vars

\* The steps the listener task takes by itself: websockets.connect and the
\* send of the subscription return or raise within open_timeout, the callback
\* returns or raises, the close of the connection ends within close_timeout.
\* The arrival of a message and the drop of the connection are the peer's.
ClobTask ==
    \/ ClobStart
    \/ ClobConnected
    \/ ClobConnectFails
    \/ ClobSubscribed
    \/ ClobSubscribeFails
    \/ ClobCallbackReturns
    \/ ClobCallbackRaises
    \/ ClobClosed

\* The steps of the pinger task: the send returns or raises, the sleep ends
Pinger == PingLoop \/ PingSent \/ PingFails

\* Both tasks always take their next step; nothing obliges the peer to send
\* a message or to close the connection ("async for raw in ws", line 276, has
\* no timeout, and ping_interval=None disables the library's keep-alive).
SpecClobFair == SpecClob /\ WF_vars(ClobTask) /\ WF_vars(Pinger)

----------------------------------------------------------------------------
(* The coordinator of the order-book listeners.
   src/src/polymarket_capturer.py holds its four constants (lines 25-28); no
   file of the repository reads them or calls orderbook_listener. The
   coordinator below follows the specification's description: it ticks on a
   fixed interval, starts a market's listener once the clock is inside the
   window's bracket and sets the listener's stop event once the clock has
   left the bracket. The listener is the one of lines 256-298. *)

SCHEDULER_TICK_SEC == 1
START_BUFFER_SEC == 10
STOP_BUFFER_SEC == 10

\* the market windows (start, end) the coordinator is given, in seconds
Windows == {<<11, 12>>, <<12, 14>>}

bracket_start == win_start - START_BUFFER_SEC
bracket_end == win_end + STOP_BUFFER_SEC

InBracket(t) == bracket_start <= t /\ t <= bracket_end

\* a listener task exists and has not returned
ClobLive == clob_pc \notin {"idle", "closed"}

\* one tick of the coordinator: the clock moves on; a window that has entered
\* its bracket gets its listener task, a listener whose window has left the
\* bracket gets its stop event set
Tick ==
    /\ now < bracket_end + MaxOvertime
    /\ now' = now + SCHEDULER_TICK_SEC
    /\ IF clob_pc = "idle" /\ InBracket(now')
       THEN /\ clob_pc' = "start"
            /\ UNCHANGED clob_stop
       ELSE IF ClobLive /\ now' > bracket_end
       THEN /\ clob_stop' = TRUE
            /\ UNCHANGED clob_pc
       ELSE UNCHANGED <<clob_pc, clob_stop>>
    /\ UNCHANGED <<win_start, win_end, scanVars, assetVars, collectorVars,
                   backtestVars>>
    /\ UNCHANGED <<clob_ws_open, clob_subs, ping_pc, clob_events, clob_calls,
                   clob_end, clob_rcvd>>
    /\ UNCHANGED <<cacheVars, bookVars, pricingVars, oracleVars>>

InitSched ==
    /\ now = 0
    /\ \E w \in Windows : win_start = w[1] /\ win_end = w[2]
    /\ IdleScan
    /\ IdleAsset
    /\ IdleCollector
    /\ IdleBacktest
    /\ IdleClob
    /\ IdleOracle
    /\ InitCacheEmpty
    /\ InitBookIdle
    /\ InitPricingIdle

\* the peer's steps
ClobPeer == (\E i \in 1..Len(ClobFrames) : ClobRecv(i)) \/ ClobDropped

NextSched == Tick \/ ClobTask \/ Pinger \/ ClobPeer

SpecSched == InitSched /\ [][NextSched]_vars

\* The coordinator's tick, the listener task and the pinger task always take
\* their next step; nothing obliges the peer to send or to close.
SpecSchedFair ==
    SpecSched /\ WF_vars(Tick) /\ WF_vars(ClobTask) /\ WF_vars(Pinger)

----------------------------------------------------------------------------
(* GammaClient.get and GammaClient.scan_15m_events
   (src/src/polymarket_capturer.py, lines 123-164) *)

\* range(20), line 134
MAX_PAGES == 20

\* "limit": 200 and offset += 200, lines 138 and 162
PAGE_LIMIT == 200

\* the default of horizon_sec, line 128
DEFAULT_HORIZON_SEC == 7200

Horizons == {DEFAULT_HORIZON_SEC, 3600}

ScanNows == {10000}

\* The value under a start-time key: no key or null, the empty text, a text
\* that is no ISO time, or an ISO time given as a local time and its offset
\* from UTC, in seconds.
NoStart == [kind |-> "absent", t |-> 0, off |-> 0]
EmptyStart == [kind |-> "empty", t |-> 0, off |-> 0]
BadStart == [kind |-> "bad", t |-> 0, off |-> 0]
Iso(t, off) == [kind |-> "iso", t |-> t, off |-> off]

\* a catalog event: whether it has a "series" key, the "recurrence" of each
\* of its series ("" where a series has none), and its two start-time keys
Event(has_series, recurrences, eventStartTime, startTime) ==
    [has_series |-> has_series, series |-> recurrences,
     eventStartTime |-> eventStartTime, startTime |-> startTime]

\* The events the catalog may hold. An event is named by its number.
Events == <<
    Event(TRUE, <<"15m">>, Iso(10000, 0), NoStart),
    Event(TRUE, <<"15m">>, NoStart, Iso(2800, 0)),
    Event(TRUE, <<"15m">>, Iso(17200, 0), NoStart),
    Event(TRUE, <<"15m">>, Iso(17201, 0), Iso(10000, 0)),
    Event(TRUE, <<"1h">>, Iso(10000, 0), NoStart),
    Event(TRUE, <<"15m">>, NoStart, NoStart),
    Event(TRUE, <<"15m">>, BadStart, Iso(10000, 0)),
    Event(TRUE, <<"1h", "15m">>, EmptyStart, Iso(10000, 0)),
    Event(FALSE, <<>>, Iso(10000, 0), NoStart),
    Event(TRUE, <<"15m">>, Iso(17000, -1000), NoStart),
    Event(TRUE, <<"">>, Iso(10000, 0), NoStart),
    Event(TRUE, <<"15m">>, Iso(13600, 3600), EmptyStart) >>

\* The pages the catalog may answer with, each a list of events. Page 1 is
\* the empty page, page 2 holds one event that is not a 15m event.
ScanPages == <<
    <<>>,
    <<5>>,
    <<1, 6, 2>>,
    <<3, 4, 7>>,
    <<8, 9, 10, 11>>,
    <<12, 1>> >>

PlainPages == {1, 2}

\* What a request ends in: a JSON list, a JSON null, or a failure of the
\* transport, of the HTTP status, or of the parse of the body.
Response(kind, page) == [kind |-> kind, page |-> page]

\* the answers the catalog may give to the request of pass i
Responses(i) ==
    {Response("list", p) :
        p \in IF i < MaxRichPages THEN 1..Len(ScanPages) ELSE PlainPages}
    \cup {Response(k, 1) : k \in {"null", "network", "http", "body"}}

\* lines 123-126: self.s.get raises, raise_for_status raises, r.json raises,
\* or the parsed body is returned
get(resp) ==
    CASE resp.kind = "network" -> Raised
      [] resp.kind = "http" -> Raised
      [] resp.kind = "body" -> Raised
      [] resp.kind = "null" -> Ok(None)
      [] OTHER -> Ok(Some(ScanPages[resp.page]))

\* "not data", line 142
not_data(data) == data = None \/ data[1] = <<>>

\* line 146: any(s.get("recurrence") == "15m" for s in e.get("series", []))
any_15m(e) ==
    e.has_series /\ \E k \in 1..Len(e.series) : e.series[k] = "15m"

\* bool(x) of a start value
start_truthy(v) == v.kind \in {"bad", "iso"}

\* line 149: e.get("eventStartTime") or e.get("startTime")
start_of(e) ==
    IF start_truthy(e.eventStartTime) THEN e.eventStartTime ELSE e.startTime

\* parse_iso, lines 36-37: the time in UTC, or an exception
parse_iso(v) == IF v.kind = "iso" THEN Ok(v.t - v.off) ELSE Raised

\* variant: the bounds of the horizon are left out
in_horizon_open(st, lo, hi) == lo < st /\ st < hi

\* line 158: lo <= st <= hi
in_horizon(st, lo, hi) == lo <= st /\ st <= hi

\* lines 145-159 for one event: is it appended to out
kept(e, lo, hi) ==
    IF ~any_15m(e) THEN FALSE
    ELSE LET start == start_of(e)
         IN  IF ~start_truthy(start) THEN FALSE
             ELSE LET st == parse_iso(start)
                  IN  IF st.raised THEN FALSE
                      ELSE in_horizon(st.v, lo, hi)

\* lines 145-159 for one page: the events appended to out, in page order
page_matches(data, lo, hi) ==
    SelectSeq(data, LAMBDA n : kept(Events[n], lo, hi))

\* variant: the same page is requested again
next_offset_same(offset) == offset

\* line 162
next_offset(offset) == offset + PAGE_LIMIT

\* lines 129-132: the call of scan_15m_events(horizon_sec)
ScanCall(horizon_sec) ==
    /\ scan_pc = "idle"
    /\ scan_horizon' = horizon_sec
    /\ scan_out' = <<>>
    /\ scan_offset' = 0
    /\ scan_i' = 0
    /\ scan_pc' = "requesting"
    /\ UNCHANGED <<scan_now, scan_result, scan_reqs, scan_pages>>
    /\ UNCHANGED <<cacheVars, bookVars, pricingVars, listenerVars, schedVars,
                   assetVars, collectorVars,
                   backtestVars>>

\* one pass of the loop of line 134: the request for the page at offset,
\* answered with resp, and lines 142-162
ScanPass(resp) ==
    /\ scan_pc = "requesting"
    /\ scan_reqs' = Append(scan_reqs, scan_offset)
    /\ LET data == get(resp)
           lo == scan_now - scan_horizon
           hi == scan_now + scan_horizon
       IN  IF data.raised
           THEN /\ scan_pc' = "raised"
                /\ UNCHANGED <<scan_out, scan_offset, scan_i, scan_result,
                               scan_pages>>
           ELSE IF not_data(data.v)
           THEN /\ scan_pc' = "returned"
                /\ scan_result' = Some(scan_out)
                /\ scan_pages' = Append(scan_pages, <<>>)
                /\ UNCHANGED <<scan_out, scan_offset, scan_i>>
           ELSE /\ scan_out' = scan_out \o page_matches(data.v[1], lo, hi)
                /\ scan_offset' = next_offset(scan_offset)
                /\ scan_i' = scan_i + 1
                /\ scan_pages' = Append(scan_pages, data.v[1])
                /\ IF scan_i' = MAX_PAGES
                   THEN /\ scan_pc' = "returned"
                        /\ scan_result' = Some(scan_out')
                   ELSE UNCHANGED <<scan_pc, scan_result>>
    /\ UNCHANGED <<scan_now, scan_horizon>>
    /\ UNCHANGED <<cacheVars, bookVars, pricingVars, listenerVars, schedVars,
                   assetVars, collectorVars,
                   backtestVars>>

InitScan ==
    /\ scan_pc = "idle"
    /\ scan_now \in ScanNows
    /\ scan_horizon = 0
    /\ scan_offset = 0
    /\ scan_i = 0
    /\ scan_out = <<>>
    /\ scan_result = None
    /\ scan_reqs = <<>>
    /\ scan_pages = <<>>
    /\ IdleSched
    /\ IdleAsset
    /\ IdleCollector
    /\ IdleBacktest
    /\ IdleOracle
    /\ IdleClob
    /\ InitCacheEmpty
    /\ InitBookIdle
    /\ InitPricingIdle

ScanRun == \E resp \in Responses(scan_i) : ScanPass(resp)

NextScan == (\E h \in Horizons : ScanCall(h)) \/ ScanRun

SpecScan == InitScan /\ [][NextScan]_vars

\* every request ends: the session's get carries timeout=(5, 15), line 124
SpecScanFair == SpecScan /\ WF_vars(NextScan)

----------------------------------------------------------------------------
(* GammaClient.extract_asset (src/src/polymarket_capturer.py, lines 166-178) *)

\* the tuple ("btc", "eth", "sol", "xrp") of line 169, in its order
KnownOrder == <<"btc", "eth", "sol", "xrp">>

UNKNOWN == <<"u", "n", "k", "n", "o", "w", "n">>

\* An event as extract_asset reads it: the value under "slug", whether there
\* is a "tags" key, and the value under "slug" of each tag.
AssetEvent(slug, has_tags, tags) ==
    [slug |-> slug, has_tags |-> has_tags, tags |-> tags]

Slugs == {
    Absent,
    Null,
    Str(<<>>),
    Str(<<"b", "t", "c", "-", "u", "p">>),
    Str(<<"B", "T", "C", "-", "U", "S">>),
    Str(<<"b", "t", "c", "x", "-", "u", "p">>),
    Str(<<"d", "o", "g", "e", "-", "u", "p">>),
    Str(<<"e", "t", "h">>),
    Str(<<"-", "u", "p">>),
    Str(<<"u", "p", "-", "s", "o", "l", "-", "1">>) }

TagLists == {
    <<>>,
    <<Str(<<"s", "o", "l">>)>>,
    <<Str(<<"c", "r", "y", "p", "t", "o">>), Str(<<"E", "T", "H">>)>>,
    <<Null, Absent, Str(<<"x", "r", "p">>), Str(<<"b", "t", "c">>)>>,
    <<Str(<<"d", "o", "g", "e">>), Null>> }

AssetEvents ==
    {AssetEvent(s, FALSE, <<>>) : s \in Slugs}
    \cup {AssetEvent(s, TRUE, t) : s \in Slugs, t \in TagLists}

\* (x.get("slug") or "").lower(), lines 168 and 174
slug_text(j) == IF Truthy(j) THEN lower(j.s) ELSE <<>>

\* str.startswith
startswith(text, head) ==
    Len(text) >= Len(head) /\ SubSeq(text, 1, Len(head)) = head

\* lines 169-171: the first name a of the tuple with slug.startswith(a + "-")
prefix_asset(slug) ==
    LET hits == {k \in 1..Len(KnownOrder) :
                    startswith(slug, KnownAssets[KnownOrder[k]] \o <<"-">>)}
    IN  IF hits = {} THEN None
        ELSE Some(KnownAssets[KnownOrder[CHOOSE k \in hits :
                                            \A h \in hits : k <= h]])

\* lines 173-176: the slug of the first tag that is a known name
tag_asset(tags) ==
    LET hits == {k \in 1..Len(tags) : is_known_asset(slug_text(tags[k]))}
    IN  IF hits = {} THEN None
        ELSE Some(slug_text(tags[CHOOSE k \in hits : \A h \in hits : k <= h]))

\* slug.split("-")[0]
split_dash_head(chars) ==
    IF \E i \in 1..Len(chars) : chars[i] = "-"
    THEN SubSeq(chars, 1,
                (CHOOSE i \in 1..Len(chars) :
                    chars[i] = "-" /\ \A k \in 1..(i - 1) : chars[k] # "-") - 1)
    ELSE chars

\* lines 166-178
extract_asset(e) ==
    LET slug == slug_text(e.slug)
        tags == IF e.has_tags THEN e.tags ELSE <<>>
    IN  IF prefix_asset(slug) # None THEN prefix_asset(slug)[1]
        ELSE IF tag_asset(tags) # None THEN tag_asset(tags)[1]
        ELSE IF slug # <<>> THEN split_dash_head(slug)
        ELSE UNKNOWN

ExtractAsset ==
    /\ ea_in # None
    /\ ea_out = None
    /\ ea_out' = Some(extract_asset(ea_in[1]))
    /\ UNCHANGED ea_in
    /\ UNCHANGED <<cacheVars, bookVars, pricingVars, listenerVars, schedVars,
                   scanVars, collectorVars, backtestVars>>

InitAsset ==
    /\ \E e \in AssetEvents : ea_in = Some(e)
    /\ ea_out = None
    /\ IdleSched
    /\ IdleScan
    /\ IdleCollector
    /\ IdleBacktest
    /\ IdleOracle
    /\ IdleClob
    /\ InitCacheEmpty
    /\ InitBookIdle
    /\ InitPricingIdle

NextAsset == ExtractAsset

SpecAsset == InitAsset /\ [][NextAsset]_vars

----------------------------------------------------------------------------
(* PolymarketWebSocketCollector (src/src/websocket_collector.py) *)

\* the flush of line 210: every hundredth valid update
FLUSH_EVERY == 100

\* asyncio.sleep(5) after a timeout and asyncio.sleep(10) after another
\* exception, lines 62 and 66
TIMEOUT_SLEEP_SEC == 5
ERROR_SLEEP_SEC == 10

\* Market ids, each with its characters; the empty text stands for a missing,
\* null or empty "market_id".
NoMarket == <<>>
M1 == <<"m", "1">>
DotM1 == <<".", "/", "m", "1">>
M2 == <<"m", "2">>

MarketIds == {M1, DotM1, M2}

\* output_dir / f"{market_id}.csv", line 168: joining a path drops the
\* components "." of its right side. A log file is named by the text
\* before ".csv".
RECURSIVE csv_path(_)
csv_path(market_id) ==
    IF Len(market_id) >= 2 /\ SubSeq(market_id, 1, 2) = <<".", "/">>
    THEN csv_path(SubSeq(market_id, 3, Len(market_id)))
    ELSE market_id

LogPaths == {csv_path(m) : m \in MarketIds}

\* The value under "timestamp_ms": no key or null, a number of milliseconds,
\* or a text. Prices are hundredths, so 0 < price < 1 is 0 < p < 100.
NoTs == [kind |-> "absent", n |-> 0]
TsNum(n) == [kind |-> "num", n |-> n]
TsStr == [kind |-> "str", n |-> 0]

\* the value under "bids" or "asks": a list of levels (the empty list where
\* the key is missing), or something that is not a list
LevelList(items) == [list |-> TRUE, items |-> items]
NotAList == [list |-> FALSE, items |-> <<>>]

Message(kind, market_id, timestamp_ms, bids_in, asks_in) ==
    [kind |-> kind, market_id |-> market_id, timestamp_ms |-> timestamp_ms,
     bids |-> bids_in, asks |-> asks_in]

OrderBookMsg(market_id, timestamp_ms, bids_in, asks_in) ==
    Message("orderbook", market_id, timestamp_ms, LevelList(bids_in),
            LevelList(asks_in))

\* The messages the connection may deliver. A level is a list of JSON
\* values.
Messages == <<
    OrderBookMsg(M1, TsNum(1000),
                 <<<<Num(40), Num(10)>>, <<Num(45), Num(5)>>>>,
                 <<<<Num(60), Num(5)>>>>),
    OrderBookMsg(M2, TsNum(2500), <<>>, <<>>),
    OrderBookMsg(DotM1, TsNum(3000), <<<<Num(45), Num(5), Num(1)>>>>, <<>>),
    OrderBookMsg(M1, NoTs, <<>>, <<>>),
    OrderBookMsg(NoMarket, TsNum(1000), <<>>, <<>>),
    OrderBookMsg(M1, TsNum(1000), <<<<Num(0), Num(10)>>>>, <<>>),
    OrderBookMsg(M1, TsNum(1000), <<<<Num(40), Num(10)>>>>,
                 <<<<Num(60), Num(5)>>, <<Num(70), Num(0)>>>>),
    OrderBookMsg(M1, TsNum(1000), <<<<Num(40)>>>>, <<>>),
    OrderBookMsg(M1, TsStr, <<<<Num(40), Num(10)>>>>, <<>>),
    Message("garbage", NoMarket, NoTs, NotAList, NotAList),
    Message("market", M1, NoTs, NotAList, NotAList),
    OrderBookMsg(M2, TsNum(1000),
                 <<<<Str(<<"0", ".", "4">>), Num(10)>>>>, <<>>),
    Message("orderbook", M2, TsNum(1000), NotAList, LevelList(<<>>)),
    OrderBookMsg(M2, TsNum(1000), <<>>, <<<<Num(100), Num(5)>>>>) >>

\* a row of a log: the header, a data row (lines 199-209; seq is the number
\* of the message that wrote it), or a row an earlier process left
Row(kind, seq, timestamp_ms, iso_sec, bid_price_1, bid_size_1, ask_price_1,
    ask_size_1, spread, mid_x2, market_id) ==
    [kind |-> kind, seq |-> seq, timestamp_ms |-> timestamp_ms,
     iso_sec |-> iso_sec, bid_price_1 |-> bid_price_1,
     bid_size_1 |-> bid_size_1, ask_price_1 |-> ask_price_1,
     ask_size_1 |-> ask_size_1, spread |-> spread, mid_x2 |-> mid_x2,
     market_id |-> market_id]

HeaderRow == Row("header", 0, 0, 0, 0, 0, 0, 0, 0, 0, <<>>)
OldRow == Row("old", 0, 0, 0, 0, 0, 0, 0, 0, 0, <<>>)

\* "not x" of a timestamp value
ts_falsy(ts) ==
    \/ ts.kind = "absent"
    \/ ts.kind = "num" /\ ts.n = 0

\* lines 136-140 and 142-146 for one level: "ok", "false" (return False) or
\* "raise" (the comparison of a text with a number)
level_check(level) ==
    IF Len(level) < 2 THEN "false"
    ELSE IF level[1].t # "num" THEN "raise"
    ELSE IF ~(0 < level[1].n /\ level[1].n < 100) THEN "false"
    ELSE IF level[2].t # "num" THEN "raise"
    ELSE IF ~(level[2].n > 0) THEN "false"
    ELSE "ok"

\* the loop over the levels of one side: the verdict on the first level that
\* is not "ok"
levels_check(levels) ==
    LET bad == {k \in 1..Len(levels) : level_check(levels[k]) # "ok"}
    IN  IF bad = {} THEN "ok"
        ELSE level_check(levels[CHOOSE k \in bad : \A h \in bad : k <= h])

\* validate_orderbook, lines 114-156: the verdict, and whether a text was
\* appended to validation_errors
Verdict(verdict, logged) == [verdict |-> verdict, logged |-> logged]

validate_orderbook(market_id, bids_in, asks_in, timestamp_ms) ==
    IF market_id = <<>> \/ ts_falsy(timestamp_ms)
    THEN Verdict("false", TRUE)
    ELSE IF ~bids_in.list \/ ~asks_in.list THEN Verdict("false", TRUE)
    ELSE IF levels_check(bids_in.items) # "ok"
    THEN Verdict(levels_check(bids_in.items), FALSE)
    ELSE IF levels_check(asks_in.items) # "ok"
    THEN Verdict(levels_check(asks_in.items), FALSE)
    ELSE Verdict("ok", FALSE)

\* lines 185-189: the top of the book
price_set(levels) == {levels[k][1].n : k \in 1..Len(levels)}

size_at(levels, price) ==
    levels[CHOOSE k \in 1..Len(levels) :
              /\ levels[k][1].n = price
              /\ \A h \in 1..(k - 1) : levels[h][1].n # price][2].n

best_bid(levels) ==
    IF levels = <<>> THEN 50
    ELSE CHOOSE p \in price_set(levels) : \A q \in price_set(levels) : q <= p

best_ask(levels) ==
    IF levels = <<>> THEN 50
    ELSE CHOOSE p \in price_set(levels) : \A q \in price_set(levels) : p <= q

\* lines 170-175: the header is written by the call that opens the file, if
\* the file is empty on disk
needs_header(is_open, size) == ~is_open /\ size = 0

\* lines 185-209: the row of a valid update
data_row(seq, market_id, bids_in, asks_in, timestamp_ms) ==
    LET b == best_bid(bids_in)
        a == best_ask(asks_in)
    IN  Row("data", seq, timestamp_ms, timestamp_ms \div 1000,
            b, IF bids_in = <<>> THEN 0 ELSE size_at(bids_in, b),
            a, IF asks_in = <<>> THEN 0 ELSE size_at(asks_in, a),
            IF b # 0 /\ a # 0 THEN a - b ELSE 0,
            IF b # 0 /\ a # 0 THEN b + a ELSE 100,
            market_id)

\* what handling one message leaves in the history
Seen(msg, outcome) == [msg |-> msg, outcome |-> outcome]

\* run() has called connect(), which waits for websockets.connect (line 46)
ColRun ==
    /\ col_pc = "start"
    /\ col_pc' = "connecting"
    /\ UNCHANGED <<col_depth, col_sleep, col_exc, col_total, col_valid,
                   col_invalid, col_errors, col_markets, col_files,
                   col_buf, col_disk, col_seen>>
    /\ UNCHANGED <<cacheVars, bookVars, pricingVars, listenerVars, schedVars,
                   scanVars, assetVars, backtestVars>>

\* websockets.connect returns; the subscription is sent (lines 50-54)
ColConnected ==
    /\ col_pc = "connecting"
    /\ col_pc' = "subscribing"
    /\ UNCHANGED <<col_depth, col_sleep, col_exc, col_total, col_valid,
                   col_invalid, col_errors, col_markets, col_files,
                   col_buf, col_disk, col_seen>>
    /\ UNCHANGED <<cacheVars, bookVars, pricingVars, listenerVars, schedVars,
                   scanVars, assetVars, backtestVars>>

\* websocket.send returns; websocket.recv is awaited (line 58)
ColSubscribed ==
    /\ col_pc = "subscribing"
    /\ col_pc' = "receiving"
    /\ UNCHANGED <<col_depth, col_sleep, col_exc, col_total, col_valid,
                   col_invalid, col_errors, col_markets, col_files,
                   col_buf, col_disk, col_seen>>
    /\ UNCHANGED <<cacheVars, bookVars, pricingVars, listenerVars, schedVars,
                   scanVars, assetVars, backtestVars>>

\* the except clause an exception is caught by (lines 60 and 64), and
\* the sleep of that clause (lines 62 and 66)
Exceptions == {"TimeoutError", "Exception"}

sleep_seconds(exc) ==
    IF exc = "TimeoutError" THEN TIMEOUT_SLEEP_SEC ELSE ERROR_SLEEP_SEC

\* an await of lines 46-58 raises. websockets.connect itself (line 46)
\* raises into the except clause; inside the block the exception first
\* leaves "async with", which waits for the connection to close.
ColFails(exc) ==
    /\ col_pc \in {"connecting", "subscribing", "receiving"}
    /\ IF col_pc = "connecting"
       THEN /\ col_pc' = "sleeping"
            /\ col_sleep' = sleep_seconds(exc)
            /\ UNCHANGED col_exc
       ELSE /\ col_pc' = "closing"
            /\ col_exc' = exc
            /\ UNCHANGED col_sleep
    /\ UNCHANGED <<col_depth, col_total, col_valid, col_invalid,
                   col_errors, col_markets, col_files, col_buf, col_disk,
                   col_seen>>
    /\ UNCHANGED <<cacheVars, bookVars, pricingVars, listenerVars, schedVars,
                   scanVars, assetVars, backtestVars>>

\* the connection is closed: the exception reaches its except clause, which
\* sleeps (lines 60-62 and 64-66)
ColClosed ==
    /\ col_pc = "closing"
    /\ col_pc' = "sleeping"
    /\ col_sleep' = sleep_seconds(col_exc)
    /\ col_exc' = "none"
    /\ UNCHANGED <<col_depth, col_total, col_valid, col_invalid,
                   col_errors, col_markets, col_files, col_buf, col_disk,
                   col_seen>>
    /\ UNCHANGED <<cacheVars, bookVars, pricingVars, listenerVars, schedVars,
                   scanVars, assetVars, backtestVars>>

\* the sleep ends: connect() calls itself (lines 63 and 67)
ColSlept ==
    /\ col_pc = "sleeping"
    /\ col_depth < MaxReconnects
    /\ col_depth' = col_depth + 1
    /\ col_pc' = "connecting"
    /\ UNCHANGED <<col_sleep, col_exc, col_total, col_valid, col_invalid,
                   col_errors, col_markets, col_files, col_buf, col_disk,
                   col_seen>>
    /\ UNCHANGED <<cacheVars, bookVars, pricingVars, listenerVars, schedVars,
                   scanVars, assetVars, backtestVars>>

\* websocket.recv returns message i of Messages: process_message (lines
\* 70-86) with handle_market_update, handle_orderbook_update,
\* validate_orderbook and write_orderbook_csv, none of which waits; an
\* exception they raise leaves "async with", which waits for the close
ColMessage(i) ==
    /\ col_pc = "receiving"
    /\ Len(col_seen) < MaxUpdates
    /\ LET msg == Messages[i]
           id == msg.market_id
           v == validate_orderbook(id, msg.bids, msg.asks, msg.timestamp_ms)
           size == Len(col_disk[csv_path(id)])
           header == IF needs_header(id \in col_files, size)
                     THEN <<HeaderRow>> ELSE <<>>
           row == data_row(Len(col_seen) + 1, id, msg.bids.items,
                           msg.asks.items, msg.timestamp_ms.n)
           raise == /\ col_pc' = "closing"
                    /\ col_exc' = "Exception"
                    /\ UNCHANGED col_sleep
           go_on == UNCHANGED <<col_pc, col_sleep, col_exc>>
       IN  CASE msg.kind = "garbage" ->
                 /\ col_invalid' = col_invalid + 1
                 /\ col_errors' = col_errors + 1
                 /\ col_seen' = Append(col_seen, Seen(i, "garbage"))
                 /\ go_on
                 /\ UNCHANGED <<col_total, col_valid, col_markets, col_files,
                                col_buf, col_disk>>
             [] msg.kind = "market" ->
                 /\ col_markets' = col_markets \cup {id}
                 /\ col_seen' = Append(col_seen, Seen(i, "market"))
                 /\ go_on
                 /\ UNCHANGED <<col_total, col_valid, col_invalid, col_errors,
                                col_files, col_buf, col_disk>>
             [] msg.kind = "orderbook" /\ v.verdict = "false" ->
                 /\ col_total' = col_total + 1
                 /\ col_invalid' = col_invalid + 1
                 /\ col_errors' = col_errors + (IF v.logged THEN 1 ELSE 0)
                 /\ col_seen' = Append(col_seen, Seen(i, "invalid"))
                 /\ go_on
                 /\ UNCHANGED <<col_valid, col_markets, col_files, col_buf,
                                col_disk>>
             [] msg.kind = "orderbook" /\ v.verdict = "raise" ->
                 /\ col_total' = col_total + 1
                 /\ col_seen' = Append(col_seen, Seen(i, "validate raised"))
                 /\ raise
                 /\ UNCHANGED <<col_valid, col_invalid, col_errors,
                                col_markets, col_files, col_buf, col_disk>>
             [] msg.kind = "orderbook" /\ v.verdict = "ok" ->
                 /\ col_total' = col_total + 1
                 /\ col_valid' = col_valid + 1
                 /\ col_files' = col_files \cup {id}
                 /\ UNCHANGED <<col_invalid, col_errors, col_markets>>
                 /\ IF msg.timestamp_ms.kind # "num"
                    THEN /\ col_buf' = [col_buf EXCEPT ![id] = @ \o header]
                         /\ col_seen' =
                                Append(col_seen, Seen(i, "write raised"))
                         /\ raise
                         /\ UNCHANGED col_disk
                    ELSE /\ col_seen' = Append(col_seen, Seen(i, "written"))
                         /\ go_on
                         /\ IF col_valid' % FLUSH_EVERY = 0
                            THEN /\ col_disk' =
                                        [col_disk EXCEPT ![csv_path(id)] =
                                            @ \o col_buf[id] \o header
                                              \o <<row>>]
                                 /\ col_buf' = [col_buf EXCEPT ![id] = <<>>]
                            ELSE /\ col_buf' =
                                        [col_buf EXCEPT ![id] =
                                            @ \o header \o <<row>>]
                                 /\ UNCHANGED col_disk
    /\ UNCHANGED col_depth
    /\ UNCHANGED <<cacheVars, bookVars, pricingVars, listenerVars, schedVars,
                   scanVars, assetVars, backtestVars>>

\* After __init__ (lines 24-40): no file is open and the counters are zero;
\* a log file may hold rows of an earlier process.
InitCollector ==
    /\ col_pc = "start"
    /\ col_depth = 0
    /\ col_sleep = 0
    /\ col_exc = "none"
    /\ col_total = 0
    /\ col_valid = 0
    /\ col_invalid = 0
    /\ col_errors = 0
    /\ col_markets = {}
    /\ col_files = {}
    /\ col_buf = [m \in MarketIds |-> <<>>]
    /\ col_disk \in [LogPaths -> {<<>>, <<OldRow>>}]
    /\ col_seen = <<>>
    /\ IdleSched
    /\ IdleScan
    /\ IdleAsset
    /\ IdleBacktest
    /\ IdleOracle
    /\ IdleClob
    /\ InitCacheEmpty
    /\ InitBookIdle
    /\ InitPricingIdle

NextCollector ==
    \/ ColRun
    \/ ColConnected
    \/ ColSubscribed
    \/ \E exc \in Exceptions : ColFails(exc)
    \/ ColClosed
    \/ ColSlept
    \/ \E i \in 1..Len(Messages) : ColMessage(i)

SpecCollector == InitCollector /\ [][NextCollector]_vars

----------------------------------------------------------------------------
(* BacktestRunner.backtest_detector (src/backtest/runner.py, lines 23-115)
   and BacktestData.from_signals (src/backtest/data_loader.py, lines
   176-232).

   Prices are in hundredths, confidences in tenths, and a P&L is an integer
   number of 1/2000: (price difference) * confidence is a number of 1/1000,
   so a winning P&L is twice that product and a P&L with the factor 0.5 is
   the product itself. *)

\* A detector output: None, or a dict with some of the keys the evaluators
\* read.
NoSignal == [null |-> TRUE, action |-> None, entry_price |-> None,
             confidence |-> None]

Signal(action, entry_price, confidence) ==
    [null |-> FALSE, action |-> action, entry_price |-> entry_price,
     confidence |-> confidence]

Signals == <<
    NoSignal,
    Signal(None, None, None),
    Signal(Some("long"), Some(40), Some(7)),
    Signal(Some("short"), Some(80), Some(6)),
    Signal(Some("hold"), Some(40), Some(7)),
    Signal(Some("long"), None, None),
    Signal(Some("short"), Some(40), Some(7)),
    Signal(Some("long"), Some(80), Some(6)) >>

\* df["chainlink_price_usd"].iloc[-1] of a market, or an entry of
\* real_outcomes
Settlements == {40, 55, 90}

\* signal.get(key, default)
signal_get(value, default) == IF value = None THEN default ELSE value[1]

\* "not signal" (runner.py line 62): None and the empty dict
falsy(signal) ==
    signal.null
    \/ (signal.action = None /\ signal.entry_price = None
        /\ signal.confidence = None)

Graded(counted, won, pnl) == [counted |-> counted, won |-> won, pnl |-> pnl]

\* variant: a settlement equal to the entry is a win
runner_grade_ties_win(action, entry_price, confidence, settlement_price) ==
    IF action = Some("long")
    THEN LET won == settlement_price >= entry_price
         IN  Graded(TRUE, won,
                    IF won
                    THEN (settlement_price - entry_price) * confidence * 2
                    ELSE -((entry_price - settlement_price) * confidence))
    ELSE IF action = Some("short")
    THEN LET won == settlement_price <= entry_price
         IN  Graded(TRUE, won,
                    IF won
                    THEN (entry_price - settlement_price) * confidence * 2
                    ELSE -((settlement_price - entry_price) * confidence))
    ELSE Graded(TRUE, FALSE, 0)

\* runner.py lines 76-86: won and pnl of one signal; the else branch still
\* appends a P&L (line 88)
runner_grade(action, entry_price, confidence, settlement_price) ==
    IF action = Some("long")
    THEN LET won == settlement_price > entry_price
         IN  Graded(TRUE, won,
                    IF won
                    THEN (settlement_price - entry_price) * confidence * 2
                    ELSE -((entry_price - settlement_price) * confidence))
    ELSE IF action = Some("short")
    THEN LET won == settlement_price < entry_price
         IN  Graded(TRUE, won,
                    IF won
                    THEN (entry_price - settlement_price) * confidence * 2
                    ELSE -((settlement_price - entry_price) * confidence))
    ELSE Graded(TRUE, FALSE, 0)

\* data_loader.py lines 202-209: won and pnl of one signal; the else branch
\* is "continue", so nothing is appended to pnls
loader_grade(action, entry, confidence, real_price) ==
    IF action = Some("long")
    THEN LET won == real_price > entry
         IN  Graded(TRUE, won,
                    IF won
                    THEN (real_price - entry) * confidence * 2
                    ELSE -((entry - real_price) * confidence * 2))
    ELSE IF action = Some("short")
    THEN LET won == real_price < entry
         IN  Graded(TRUE, won,
                    IF won
                    THEN (entry - real_price) * confidence * 2
                    ELSE -((real_price - entry) * confidence * 2))
    ELSE Graded(FALSE, FALSE, 0)

RECURSIVE np_sum(_)
np_sum(pnls) ==
    IF pnls = <<>> THEN 0 ELSE pnls[1] + np_sum(Tail(pnls))

\* The result dict: "error" present or not, "trades", and for a result
\* with metrics "wins", "total_pnl" and the number of values np.mean and
\* np.std are taken over.
NoSignalsResult == [error |-> TRUE, trades |-> 0, wins |-> None,
                    total_pnl |-> None, population |-> None]

Metrics(trades, wins, pnls) ==
    [error |-> FALSE, trades |-> trades, wins |-> Some(wins),
     total_pnl |-> Some(np_sum(pnls)), population |-> Some(Len(pnls))]

\* variant: the metrics are computed whatever the number of trades
runner_no_trades_never(all_trades) == FALSE

\* runner.py line 93
runner_no_trades(all_trades) == all_trades = 0

\* data_loader.py line 218: "not pnls"
loader_no_pnls(pnls) == pnls = <<>>

\* runner.py lines 93-115
runner_result(all_trades, all_wins, all_pnls) ==
    IF runner_no_trades(all_trades) THEN NoSignalsResult
    ELSE Metrics(all_trades, all_wins, all_pnls)

\* data_loader.py lines 192-214, over zip(signals, real_outcomes); acc holds
\* trades, wins and pnls
Acc(trades, wins, pnls) == [trades |-> trades, wins |-> wins, pnls |-> pnls]

loader_step(acc, signal, real_price) ==
    IF signal.null THEN acc
    ELSE LET g == loader_grade(signal.action,
                               signal_get(signal.entry_price, 50),
                               signal_get(signal.confidence, 5),
                               real_price)
         IN  Acc(acc.trades + 1,
                 acc.wins + (IF g.won THEN 1 ELSE 0),
                 IF g.counted THEN Append(acc.pnls, g.pnl) ELSE acc.pnls)

RECURSIVE loader_loop(_, _, _)
loader_loop(signals, real_outcomes, n) ==
    IF n = 0 THEN Acc(0, 0, <<>>)
    ELSE loader_step(loader_loop(signals, real_outcomes, n - 1),
                     Signals[signals[n]], real_outcomes[n])

Min2(a, b) == IF a <= b THEN a ELSE b

\* data_loader.py lines 188-232
from_signals(signals, real_outcomes) ==
    LET acc == loader_loop(signals, real_outcomes,
                           Min2(Len(signals), Len(real_outcomes)))
    IN  IF loader_no_pnls(acc.pnls) THEN NoSignalsResult
        ELSE Metrics(acc.trades, acc.wins, acc.pnls)

BtFrame ==
    UNCHANGED <<cacheVars, bookVars, pricingVars, listenerVars, schedVars,
                scanVars, assetVars, collectorVars>>

\* backtest_detector is called (lines 35-38)
RunnerCall(num_markets) ==
    /\ bt_pc = "idle"
    /\ bt_pc' = "loop"
    /\ bt_num' = num_markets
    /\ bt_idx' = 0
    /\ bt_pnls' = <<>>
    /\ bt_trades' = 0
    /\ bt_wins' = 0
    /\ bt_tested' = 0
    /\ bt_result' = None
    /\ bt_signals' = <<>>
    /\ bt_outcomes' = <<>>
    /\ bt_last' = None
    /\ UNCHANGED <<fs_in, fs_result>>
    /\ BtFrame

\* load_market returns None: break (lines 43-44)
RunnerNoMarket ==
    /\ bt_pc = "loop"
    /\ bt_idx < bt_num
    /\ bt_pc' = "metrics"
    /\ UNCHANGED <<bt_num, bt_idx, bt_pnls, bt_trades, bt_wins, bt_tested,
                   bt_result, bt_signals, bt_outcomes, bt_last, fs_in,
                   fs_result>>
    /\ BtFrame

\* one pass of the loop with a market loaded (lines 46-90): the detector
\* returns signal i of Signals, the market settled at settlement_price
RunnerMarket(i, settlement_price) ==
    /\ bt_pc = "loop"
    /\ bt_idx < bt_num
    /\ bt_idx' = bt_idx + 1
    /\ bt_tested' = bt_tested + 1
    /\ bt_signals' = Append(bt_signals, i)
    /\ bt_outcomes' = Append(bt_outcomes, settlement_price)
    /\ IF falsy(Signals[i])
       THEN /\ bt_last' = None
            /\ UNCHANGED <<bt_pnls, bt_trades, bt_wins>>
       ELSE LET g == runner_grade(Signals[i].action,
                                  signal_get(Signals[i].entry_price, 50),
                                  signal_get(Signals[i].confidence, 5),
                                  settlement_price)
            IN  /\ bt_trades' = bt_trades + 1
                /\ bt_pnls' = Append(bt_pnls, g.pnl)
                /\ bt_wins' = bt_wins + (IF g.won THEN 1 ELSE 0)
                /\ bt_last' = Some([signal |-> i,
                                    settlement |-> settlement_price,
                                    won |-> g.won, pnl |-> g.pnl])
    /\ UNCHANGED <<bt_pc, bt_num, bt_result, fs_in, fs_result>>
    /\ BtFrame

\* the loop is over: the result of lines 93-115
RunnerReturn ==
    /\ \/ bt_pc = "metrics"
       \/ bt_pc = "loop" /\ bt_idx = bt_num
    /\ bt_pc' = "done"
    /\ bt_result' = Some(runner_result(bt_trades, bt_wins, bt_pnls))
    /\ UNCHANGED <<bt_num, bt_idx, bt_pnls, bt_trades, bt_wins, bt_tested,
                   bt_signals, bt_outcomes, bt_last, fs_in, fs_result>>
    /\ BtFrame

\* from_signals is called with the signals the detector gave so far and the
\* first k settlements
FromSignals(k) ==
    /\ bt_pc # "idle"
    /\ k <= Len(bt_outcomes)
    /\ fs_in' = Some([signals |-> bt_signals,
                      real_outcomes |-> SubSeq(bt_outcomes, 1, k)])
    /\ fs_result' = Some(from_signals(bt_signals, SubSeq(bt_outcomes, 1, k)))
    /\ UNCHANGED <<bt_pc, bt_num, bt_idx, bt_pnls, bt_trades, bt_wins,
                   bt_tested, bt_result, bt_signals, bt_outcomes, bt_last>>
    /\ BtFrame

InitBacktest ==
    /\ InitCacheEmpty /\ InitBookIdle /\ InitPricingIdle
    /\ IdleOracle /\ IdleClob
    /\ IdleSched /\ IdleScan /\ IdleAsset /\ IdleCollector
    /\ IdleBacktest

NextBacktest ==
    \/ \E n \in 0..MaxMarkets : RunnerCall(n)
    \/ RunnerNoMarket
    \/ \E i \in 1..Len(Signals), s \in Settlements : RunnerMarket(i, s)
    \/ RunnerReturn
    \/ \E k \in 0..MaxMarkets : FromSignals(k)

SpecBacktest == InitBacktest /\ [][NextBacktest]_vars

----------------------------------------------------------------------------
(* PriceCache: claims *)

\* C1: after every add(), each series' timestamps are non-decreasing by
\* index, whatever the arrival order and with duplicates allowed.
C1_SeriesSorted ==
    \A key \in DOMAIN cache_ts :
        \A i \in 1..(Len(cache_ts[key]) - 1) :
            cache_ts[key][i] <= cache_ts[key][i + 1]

\* an out-of-order arrival sits before an entry that was added earlier
C1_Witness ==
    \E key \in DOMAIN cache_px :
        \E i \in 1..(Len(cache_px[key]) - 1) :
            cache_px[key][i] > cache_px[key][i + 1]

\* C2: after every add(), every retained entry has
\* timestamp >= newest retained timestamp - max_age_ms.
C2_RetentionWindow ==
    \A key \in DOMAIN cache_ts :
        LET s == cache_ts[key]
            retained == {s[i] : i \in 1..Len(s)}
        IN  \A t \in retained : t >= SetMax(retained) - max_age_ms

\* the latest add() was itself older than the cutoff and is not retained
C2_Witness ==
    /\ n_adds > 0
    /\ \E a \in added :
        /\ a[3] = n_adds
        /\ \A i \in 1..Len(cache_px[a[1]]) : cache_px[a[1]][i] # n_adds
        /\ Len(cache_ts[a[1]]) >= 2

\* C3: asof(key, t) returns the retained entry with the greatest timestamp
\* <= t, with a price that was added with that timestamp, and (None, None)
\* exactly when the series is unknown, empty or entirely newer than t.
C3_AsofLatestAtOrBefore ==
    last_asof # None =>
        LET q    == last_asof[1]
            s    == series(cache_ts, q.key)
            cand == {i \in 1..Len(s) : s[i] <= q.ts_ms}
        IN  IF cand = {}
            THEN q.out = <<None, None>>
            ELSE /\ q.out[1] = Some(SetMax({s[i] : i \in cand}))
                 /\ \E i \in cand :
                        /\ Some(s[i]) = q.out[1]
                        /\ Some(cache_px[q.key][i]) = q.out[2]
                 /\ \E a \in added :
                        /\ a[1] = q.key
                        /\ Some(a[2]) = q.out[1]
                        /\ Some(a[3]) = q.out[2]

\* a query that lands on duplicated timestamps of a series holding an
\* out-of-order insertion, with an older and a newer entry around it
C3_Witness ==
    /\ last_asof # None
    /\ last_asof[1].out # <<None, None>>
    /\ LET q == last_asof[1]
           s == cache_ts[q.key]
       IN  /\ Len(s) >= 3
           /\ \E i \in 1..Len(s) : s[i] > q.ts_ms
           /\ \E i \in 1..Len(s) : Some(s[i]) # q.out[1] /\ s[i] < q.ts_ms
           /\ \E i \in 1..(Len(s) - 1) :
                  cache_px[q.key][i] > cache_px[q.key][i + 1]

\* the entries of a series, each a timestamp with its price
EntriesOf(ts_arr, px_arr) == {<<ts_arr[i], px_arr[i]>> : i \in 1..Len(ts_arr)}

\* C33: a series changes only in an add() on its own key, and what such an
\* add() removes is older than the series' own newest timestamp minus
\* max_age_ms: asof() changes nothing, an add() on another key changes
\* nothing, and a series without add() keeps its entries however far the
\* other series advance.
C33_EvictionOnlyInOwnAdd ==
    [][\A k \in Keys :
        LET ts0 == series(cache_ts, k)
            px0 == series(cache_px, k)
            ts1 == series(cache_ts', k)
            px1 == series(cache_px', k)
        IN  (ts1 # ts0 \/ px1 # px0)
            => /\ n_adds' = n_adds + 1
               /\ \E a \in added' \ added : a[1] = k
               /\ ts1 # <<>>
               /\ \A e \in EntriesOf(ts0, px0) \ EntriesOf(ts1, px1) :
                      e[1] < ts1[Len(ts1)] - max_age_ms]_vars

\* one series has advanced and evicted, the other still holds its two old
\* entries, and asof() has been called
C33_Witness ==
    /\ last_asof # None
    /\ \E k1 \in Keys, k2 \in Keys :
        /\ k1 # k2
        /\ series(cache_ts, k1) = <<0, 500>>
        /\ series(cache_ts, k2) = <<3000>>
        /\ \E a \in added : a[1] = k2 /\ a[2] = 0

\* the points added to a key
PointsOf(key) == {a \in added : a[1] = key}

DistinctTimes(points) ==
    \A a \in points, b \in points : a # b => a[2] # b[2]

\* C36: for points with pairwise distinct timestamps the content of a
\* series depends on the set of points only, not on the order of the
\* add() calls: it is the points with timestamp >= (maximum timestamp -
\* max_age_ms), sorted by timestamp.
C36_ContentIsOrderFree ==
    \A key \in Keys :
        LET points == PointsOf(key)
            newest == SetMax({a[2] : a \in points})
            kept_points == {a \in points : a[2] >= newest - max_age_ms}
            ts_arr == series(cache_ts, key)
            px_arr == series(cache_px, key)
        IN  (points # {} /\ DistinctTimes(points))
            => /\ Len(ts_arr) = Cardinality(kept_points)
               /\ Len(px_arr) = Len(ts_arr)
               /\ \A i \in 1..Len(ts_arr) :
                      <<key, ts_arr[i], px_arr[i]>> \in kept_points
               /\ \A i \in 1..(Len(ts_arr) - 1) : ts_arr[i] < ts_arr[i + 1]

\* three points with distinct timestamps, the last of them added after a
\* newer point that puts it beyond the retention window
C36_Witness ==
    \E key \in Keys :
        /\ DistinctTimes(PointsOf(key))
        /\ Cardinality(PointsOf(key)) >= 3
        /\ \E a \in PointsOf(key), b \in PointsOf(key) :
               a[3] < b[3] /\ b[3] = n_adds /\ b[2] < a[2] - max_age_ms
        /\ series(cache_ts, key) = <<3000>>

\* C37: when several retained entries share the timestamp asof() answers
\* with, the price returned is the one of the entry added last (prices are
\* the sequence numbers of the add() calls), whether the entry was appended
\* or inserted.
C37_LastAddedOfTies ==
    (last_asof # None /\ last_asof[1].out # <<None, None>>)
    => LET q == last_asof[1]
           ts_arr == series(cache_ts, q.key)
           px_arr == series(cache_px, q.key)
           ties == {i \in 1..Len(ts_arr) : Some(ts_arr[i]) = q.out[1]}
       IN  q.out[2] = Some(SetMax({px_arr[i] : i \in ties}))

\* a query at the shared timestamp itself: two entries share it, the later
\* one was inserted before a newer entry
C37_Witness ==
    /\ last_asof # None
    /\ last_asof[1].out # <<None, None>>
    /\ LET q == last_asof[1]
           ts_arr == series(cache_ts, q.key)
           px_arr == series(cache_px, q.key)
           ties == {i \in 1..Len(ts_arr) : Some(ts_arr[i]) = q.out[1]}
       IN  /\ Cardinality(ties) >= 2
           /\ Some(q.ts_ms) = q.out[1]
           /\ \E j \in 1..Len(ts_arr) :
                  /\ \A i \in ties : i < j
                  /\ Some(px_arr[j]) # q.out[2]
                  /\ \A i \in ties : px_arr[j] < px_arr[i] => i = SetMax(ties)

----------------------------------------------------------------------------
(* OrderBook: claims *)

\* C4: every snapshot() result holds at most LEVELS bid levels and at most
\* LEVELS ask levels, bid prices strictly descending and ask prices strictly
\* ascending by level index.
C4_SnapshotBoundedOrdered ==
    snap # None =>
        LET b == snap[1].out.bids
            a == snap[1].out.asks
        IN  /\ Len(b) <= LEVELS
            /\ Len(a) <= LEVELS
            /\ \A i \in 1..(Len(b) - 1) : b[i][1] > b[i + 1][1]
            /\ \A i \in 1..(Len(a) - 1) : a[i][1] < a[i + 1][1]

\* a snapshot after a call whose lists were longer than LEVELS and repeated
\* a price, the ask side full and the bid side cut short by the repetition
C4_Witness ==
    /\ snap # None
    /\ Len(in_bids) > MaxPrice
    /\ Len(in_asks) > MaxPrice
    /\ Len(snap[1].out.asks) = LEVELS
    /\ Len(snap[1].out.bids) \in 2..(LEVELS - 1)

\* C5: the bid side and the ask side of every snapshot() result were
\* assigned by the same book() call (or both are the initial empty book).
C5_SnapshotFromOneCall ==
    snap # None => snap[1].bids_from = snap[1].asks_from

\* a snapshot taken between two book() calls that changed the book
C5_Witness ==
    /\ snap # None
    /\ snap[1].bids_from = 1
    /\ snap[1].out.bids # <<>>
    /\ snap[1].out.asks # <<>>
    /\ call_no = 1
    /\ book_pc = "idle"

\* C6: after book() returns, every level of the book is a (price, size) of
\* this call's input, so no earlier level survives unless the input holds it.
C6_BookReplacesLevels ==
    (book_pc = "idle" /\ call_no > 0) =>
        /\ \A p \in DOMAIN bids :
               \E i \in 1..Len(in_bids) :
                   /\ to_float(in_bids[i].price) = p
                   /\ to_float(in_bids[i].size) = bids[p]
        /\ \A p \in DOMAIN asks :
               \E i \in 1..Len(in_asks) :
                   /\ to_float(in_asks[i].price) = p
                   /\ to_float(in_asks[i].size) = asks[p]

\* a second call returned, having removed or changed a level of the first,
\* and left a book that is not empty
C6_Witness ==
    /\ book_pc = "idle"
    /\ call_no >= 2
    /\ dropped
    /\ DOMAIN bids # {}
    /\ DOMAIN asks # {}

\* the distinct prices of a list of levels
PricesOf(levels) == {to_float(levels[i].price) : i \in 1..Len(levels)}

\* the n highest and the n lowest of a set of prices
Highest(prices, n) ==
    {p \in prices : Cardinality({q \in prices : q > p}) < n}

Lowest(prices, n) ==
    {p \in prices : Cardinality({q \in prices : q < p}) < n}

\* C34: after book(bids, asks) the retained bids are the min(N, d) highest
\* distinct bid prices of the input and the retained asks the min(N, d')
\* lowest distinct ask prices, also when a price is listed more than once.
\* Lines 89-97 cut the sorted list to N entries before dict() merges the
\* entries of one price (lines 99-100).
C34_TopDistinctLevels ==
    /\ (call_no > 0 /\ bids_from = call_no)
       => DOMAIN bids = Highest(PricesOf(in_bids), LEVELS)
    /\ (call_no > 0 /\ asks_from = call_no)
       => DOMAIN asks = Lowest(PricesOf(in_asks), LEVELS)

----------------------------------------------------------------------------
(* PricingModel: claims *)

Computed == fv_in # None /\ fv_out # None

\* C7: with minutes_remaining <= 0 and positive prices the result is
\* exactly yes = 1.0, no = 0.0 when current > strike and yes = 0.0, no = 1.0
\* otherwise (equality included), whatever the volatility.
C7_ExpiryDeterministic ==
    (/\ Computed
     /\ fv_in.minutes_remaining <= 0
     /\ fv_in.current_price > 0
     /\ fv_in.strike_price > 0) =>
        IF fv_in.current_price > fv_in.strike_price
        THEN fv_out[1] = [fair_value_yes |-> ONE, fair_value_no |-> 0]
        ELSE fv_out[1] = [fair_value_yes |-> 0, fair_value_no |-> ONE]

\* an expired market with the price exactly at the strike
C7_Witness ==
    /\ Computed
    /\ fv_in.minutes_remaining <= 0
    /\ fv_in.current_price > 0
    /\ fv_in.current_price = fv_in.strike_price
    /\ fv_in.volatility_1m # 0

\* C8: a non-positive current or strike price gives an error result without
\* a fair_value_yes field, for every minutes_remaining.
C8_InvalidPricesRejected ==
    (Computed /\ (fv_in.current_price <= 0 \/ fv_in.strike_price <= 0)) =>
        /\ "error" \in DOMAIN fv_out[1]
        /\ "fair_value_yes" \notin DOMAIN fv_out[1]
        /\ "fair_value_no" \notin DOMAIN fv_out[1]

\* an expired market with a non-positive price
C8_Witness ==
    /\ Computed
    /\ fv_in.minutes_remaining <= 0
    /\ fv_in.strike_price <= 0
    /\ fv_in.current_price > 0

\* C9 as stated: with minutes_remaining > 0 the reported sigma_remaining is
\* at least 0.001.
C9_SigmaAtLeastEpsilon ==
    (Computed /\ fv_in.minutes_remaining > 0
              /\ "sigma_remaining" \in DOMAIN fv_out[1]) =>
        fv_out[1].sigma_remaining >= SIGMA_EPS

\* C9 amended: with minutes_remaining > 0 the reported sigma_remaining is
\* never zero: it is 0.001 when volatility_1m * sqrt(minutes_remaining) is
\* exactly zero and that product, unchanged, otherwise (also when the
\* product is below 0.001 or negative).
C9_SigmaZeroReplaced ==
    (Computed /\ fv_in.minutes_remaining > 0
              /\ fv_in.current_price > 0 /\ fv_in.strike_price > 0) =>
        LET product == fv_in.volatility_1m * sqrt_tenths(fv_in.minutes_remaining)
        IN  /\ "sigma_remaining" \in DOMAIN fv_out[1]
            /\ fv_out[1].sigma_remaining # 0
            /\ product = 0 => fv_out[1].sigma_remaining = SIGMA_EPS
            /\ product # 0 => fv_out[1].sigma_remaining = product

\* a product that is positive and below 0.001
C9_Witness ==
    /\ Computed
    /\ fv_in.minutes_remaining > 0
    /\ "sigma_remaining" \in DOMAIN fv_out[1]
    /\ fv_in.volatility_1m > 0
    /\ fv_in.volatility_1m * sqrt_tenths(fv_in.minutes_remaining) < SIGMA_EPS

\* C10: at the strike (current = strike = K > 0) with volatility > 0 and
\* minutes_remaining > 0: distance = 0, z_score = 0, fair_value_yes = 0.5.
C10_AtStrikeHalf ==
    (/\ Computed
     /\ fv_in.current_price = fv_in.strike_price
     /\ fv_in.current_price > 0
     /\ fv_in.volatility_1m > 0
     /\ fv_in.minutes_remaining > 0) =>
        /\ fv_out[1].distance = 0
        /\ fv_out[1].z_score = 0
        /\ 2 * fv_out[1].fair_value_yes = ONE

\* K is not 1, the volatility positive and the market open
C10_Witness ==
    /\ Computed
    /\ fv_in.current_price = fv_in.strike_price
    /\ fv_in.current_price > 1
    /\ fv_in.volatility_1m > 0
    /\ fv_in.minutes_remaining > 0

\* C11: every non-error result, of the probabilistic branch and of the
\* expiry branch, has fair_value_yes + fair_value_no = 1 and
\* 0 <= fair_value_yes <= 1.
C11_FairValuesComplementary ==
    (Computed /\ "error" \notin DOMAIN fv_out[1]) =>
        /\ fv_out[1].fair_value_yes + fv_out[1].fair_value_no = ONE
        /\ 0 <= fv_out[1].fair_value_yes
        /\ fv_out[1].fair_value_yes <= ONE

\* a probabilistic result below the strike, strictly between 0 and 1
C11_Witness ==
    /\ Computed
    /\ "z_score" \in DOMAIN fv_out[1]
    /\ fv_out[1].z_score < 0
    /\ fv_out[1].fair_value_yes > 0
    /\ fv_out[1].fair_value_yes < ONE \div 2

\* C12: find_misprice returns none exactly when market is outside [0,1] or
\* |market - fair| < min_edge; a returned result carries
\* edge = |market - fair| and is labelled "overpriced_yes" exactly when
\* market > fair and "underpriced_yes" exactly when market < fair, for any
\* min_edge >= 0.
C12_MispriceContract ==
    mp_out # None =>
        LET r == mp_out[1]
            market == mp_in[1].market_price_yes
            fair == mp_in[1].fair_value_yes
            min_edge == mp_in[1].min_edge
        IN  /\ IsNone(r) <=> (\/ market < 0
                              \/ market > EIGHTHS
                              \/ Abs(market - fair) < min_edge)
            /\ ~IsNone(r) =>
                /\ r.edge = Abs(market - fair)
                /\ (r.type = "overpriced_yes") <=> (market > fair)
                /\ (r.type = "underpriced_yes") <=> (market < fair)

\* C13: estimate_vol_from_prices returns the default 0.01 whenever the
\* price history yields fewer than 2 valid log-returns, in particular for
\* a history of exactly two positive prices.
C13_DefaultBelowTwoReturns ==
    (vol_in # None /\ vol_out # None
     /\ Len(returns_from(vol_in[1], 2)) < 2) =>
        vol_out[1] = DEFAULT_VOL

----------------------------------------------------------------------------
(* Claims about rtds_prices_listener *)

\* the listener is recovering from a failure: it has not connected since
Recovering == fail_kind # "none"

\* C14: while the stop event is not set the oracle listener never
\* terminates: after a connect failure, a subscribe failure, a receive
\* error, a receive timeout or an error raised while handling a message it
\* eventually starts a new connection attempt (or the stop event is set).
C14_ListenerNeverGivesUp ==
    /\ [](rtds_pc = "done" => stop_evt)
    /\ (Recovering ~> (rtds_pc = "connecting" \/ stop_evt))

\* a new connection attempt after two failures in a row, stop event unset
C14_Witness ==
    /\ Recovering
    /\ rtds_pc = "connecting"
    /\ ~stop_evt
    /\ fails > 1

\* what lies between a failure and the new connection attempt: the close of
\* the connection (a failed connect has none), then one wait
RecoverySteps(kind) ==
    IF kind = "connect" THEN <<"wait">> ELSE <<"close", "wait">>

\* the recovery runs in order: no read position while recovering, the
\* connection is closed before the wait, the wait is always the same fixed
\* delay, and a connection attempt comes after the close and one wait
RecoveryInOrder ==
    /\ Recovering =>
           rtds_pc \in {"closing", "sleeping", "connecting", "done"}
    /\ rtds_pc = "sleeping" =>
           /\ ~ws_open
           /\ sleep_ms = RECONNECT_DELAY_MS
    /\ (Recovering /\ rtds_pc = "closing") => steps = <<>>
    /\ (Recovering /\ rtds_pc = "connecting") =>
           /\ steps = RecoverySteps(fail_kind)
           /\ ~ws_open
           /\ sleep_ms = RECONNECT_DELAY_MS

\* C15 as stated: every transport error and every receive timeout is
\* followed by the close, one wait of the fixed delay and a new connection
\* attempt, in this order; so the listener never returns while recovering.
C15_FailureAlwaysReconnects ==
    /\ RecoveryInOrder
    /\ Recovering => rtds_pc # "done"

\* C15, amended: the recovery runs in this order with the same fixed delay
\* after every failure, and the listener returns while recovering only if
\* the stop event is set.
C15_RecoveryUnlessStopped ==
    /\ RecoveryInOrder
    /\ (Recovering /\ rtds_pc = "done") => stop_evt

\* a new connection attempt after the second timeout in a row
C15_Witness ==
    /\ fail_kind = "timeout"
    /\ rtds_pc = "connecting"
    /\ steps = <<"close", "wait">>
    /\ fails > 1

\* the frame read last
LastFrame == Frames[handled[1].frame]

\* the topic a frame names, in the message or in its payload
NamedTopic(m) == IF m.topic.t = "str" THEN m.topic.s ELSE m.p_topic.s

\* a text with its letters in lower case
Folded(chars) ==
    [i \in 1..Len(chars) |->
        IF chars[i] \in DOMAIN LowerCase THEN LowerCase[chars[i]] ELSE chars[i]]

\* text begins with head
StartsWith(text, head) ==
    Len(text) >= Len(head) /\ SubSeq(text, 1, Len(head)) = head

\* the series keys a frame's topic and symbol name: "cl" with ASSET/QUOTE
\* for the Chainlink topic, "bn" with ASSETusdt for the exchange topic, in
\* any case of the letters
NamedKeys(m) ==
    IF m.symbol.t # "str" THEN {}
    ELSE {<<"cl", a>> : a \in {b \in DOMAIN KnownAssets :
              /\ NamedTopic(m) = CHAINLINK
              /\ StartsWith(Folded(m.symbol.s), KnownAssets[b] \o <<"/">>)}}
         \cup
         {<<"bn", a>> : a \in {b \in DOMAIN KnownAssets :
              /\ NamedTopic(m) = BINANCE
              /\ Folded(m.symbol.s) = KnownAssets[b] \o <<"u", "s", "d", "t">>}}

\* a timestamp or value that is a number or spells one
Numeric(j) ==
    \/ j.t = "num"
    \/ j.t = "str" /\ j.s # <<>> /\ \A i \in 1..Len(j.s) : IsDigit(j.s[i])

NumberOf(j) == IF j.t = "num" THEN j.n ELSE digits_value(j.s)

\* a JSON object with an object payload that holds a timestamp and a value
WellFormed(m) ==
    /\ m.kind = "json"
    /\ m.json.t = "obj"
    /\ m.payload.t = "obj"
    /\ Numeric(m.timestamp)
    /\ Numeric(m.value)

\* C16: a frame that is blank, not JSON, JSON but not an object, with a
\* payload that is not an object, without timestamp or value, or naming an
\* unrecognized topic or symbol leaves the cache unchanged and the listener
\* in Receiving on the same connection (the stop event not being set).
C16_MalformedFrameDropped ==
    (/\ handled # None
     /\ ~handled[1].stop
     /\ \/ LastFrame.kind # "json"
        \/ LastFrame.json.t # "obj"
        \/ LastFrame.payload.t # "obj"
        \/ IsNoneValue(LastFrame.timestamp)
        \/ IsNoneValue(LastFrame.value)
        \/ NamedKeys(LastFrame) = {}) =>
        /\ ~handled[1].changed
        /\ handled[1].outcome = "continue"
        /\ handled[1].next_pc = "receiving"

\* C17: no entry with a price <= 0 is ever stored in the cache by the
\* oracle listener.
C17_NoNonPositivePriceStored ==
    /\ \A e \in added : e[3] > 0
    /\ \A k \in DOMAIN cache_px :
           \A i \in 1..Len(cache_px[k]) : cache_px[k][i] > 0

\* C18: on every connection, the first and each reconnect, the
\* subscription is sent exactly once, and before any frame of that
\* connection is read.
C18_SubscribedOncePerConnection ==
    /\ ws_open => subs_sent = 1
    /\ rtds_pc = "subscribing" => ~read_any
    /\ (rtds_pc = "receiving" \/ read_any) => subs_sent = 1

\* a reconnect after a failure that has subscribed and waits for a frame
C18_Witness ==
    /\ rtds_pc = "receiving"
    /\ ws_open
    /\ subs_sent = 1
    /\ fails > 0

\* C19: every key the listener writes is ("cl" | "bn", asset) with the
\* asset one of btc, eth, sol, xrp in lower case; a recognized well-formed
\* frame causes exactly one add() of its timestamp and value to the key it
\* names, and no other frame causes an add().
C19_KeysAndSingleAdd ==
    /\ \A k \in DOMAIN cache_ts \cup DOMAIN cache_px \cup {e[1] : e \in added} :
           k \in {"cl", "bn"} \X {"btc", "eth", "sol", "xrp"}
    /\ handled # None =>
           /\ Len(handled[1].adds) <= 1
           /\ \A i \in 1..Len(handled[1].adds) :
                  /\ WellFormed(LastFrame)
                  /\ NamedKeys(LastFrame) = {handled[1].adds[i].key}
                  /\ handled[1].adds[i].ts_ms = NumberOf(LastFrame.timestamp)
                  /\ handled[1].adds[i].price = NumberOf(LastFrame.value)
           /\ (/\ WellFormed(LastFrame)
               /\ NamedKeys(LastFrame) # {}
               /\ NumberOf(LastFrame.value) > 0) =>
                  Len(handled[1].adds) = 1

\* the exchange frame with the upper-case symbol BTCUSDT has been stored
C19_Witness ==
    /\ handled # None
    /\ LastFrame.symbol.s = <<"B", "T", "C", "U", "S", "D", "T">>
    /\ Len(handled[1].adds) = 1
    /\ DOMAIN cache_ts = {<<"bn", "btc">>}

----------------------------------------------------------------------------
(* Claims about orderbook_listener *)

\* C20: an order-book listener reaches Closed (returns) only after its stop
\* event has been set; after a connection drop, a subscribe failure or an
\* error raised while dispatching an event, a listener whose stop event is
\* not set reconnects instead of ending.
C20_ClosedOnlyAfterStop == clob_pc = "closed" => clob_stop

\* C21: once the stop event is set, the listener eventually closes the
\* connection and returns, whether or not another message arrives.
\* The code tests the stop event only at line 277, after "async for" has
\* yielded a message: with a silent peer the listener waits for ever.
C21_StopLeadsToClosed == clob_stop ~> (clob_pc = "closed")

\* C22: after a PING send has failed (the pinger has returned although the
\* stop event is unset), the listener does not take another message from the
\* connection to the callback.
\* The pinger swallows the exception (lines 269-270) and nothing in the
\* listener looks at the pinger task before line 295.
PingFailed == ping_pc = "returned" /\ ~clob_stop
C22_NoDispatchAfterPingFailure ==
    [][(PingFailed /\ clob_pc = "streaming") => clob_pc' # "dispatching"]_vars

\* The handler calls a message is due by its JSON value: the object itself,
\* the elements of an array in order, nothing for any other text.
message_events(m) ==
    LET f == ClobFrames[m.frame]
    IN  IF f.kind \in {"object", "array"} THEN f.items ELSE <<>>

RECURSIVE calls_due(_)
calls_due(rcvd) ==
    IF rcvd = <<>> THEN <<>>
    ELSE message_events(rcvd[1]) \o calls_due(Tail(rcvd))

IsPrefix(s, t) == Len(s) <= Len(t) /\ s = SubSeq(t, 1, Len(s))

\* the messages the connection yielded while the stop event was unset
TakenRunning == SelectSeq(clob_rcvd, LAMBDA m : ~m.stopped)

\* C23 as stated: for every message the connection has yielded, the handler
\* has been called once per event, in order (left aside a handler call that
\* raised), and the subscription was sent once before the first call.
\* A message yielded after the stop event was set is discarded (line 277).
C23_EveryMessageDispatched ==
    /\ (clob_pc \in {"streaming", "closing", "closed"}
            /\ clob_end # "dispatch")
        => clob_calls = calls_due(clob_rcvd)
    /\ clob_calls # <<>> => clob_subs = 1

\* C23, amended: for every message the connection yields while the stop
\* event is unset, in arrival order, the handler is called once with an
\* object and once per element of an array, in array order, and not at all
\* for any other text, after which the listener waits for the next message;
\* the calls stop short only where a handler call raises. The subscription
\* is sent exactly once, before the first handler call.
C23_DispatchInArrivalOrder ==
    LET due == calls_due(TakenRunning)
    IN  /\ IsPrefix(clob_calls, due)
        /\ clob_pc = "dispatching" => clob_calls \o Tail(clob_events) = due
        /\ (clob_pc \in {"streaming", "closing", "closed"}
                /\ clob_end # "dispatch")
            => clob_calls = due
        /\ (/\ clob_rcvd # <<>>
            /\ ~clob_rcvd[Len(clob_rcvd)].stopped
            /\ message_events(clob_rcvd[Len(clob_rcvd)]) = <<>>
            /\ clob_end = "none")
            => clob_pc = "streaming"
        /\ clob_subs <= 1
        /\ clob_calls # <<>> => clob_subs = 1

\* an array, a text that is not JSON and an object have been taken in turn
C23_Witness ==
    /\ clob_pc = "streaming"
    /\ Len(clob_rcvd) = 3
    /\ ClobFrames[clob_rcvd[1].frame].kind = "array"
    /\ ClobFrames[clob_rcvd[2].frame].kind = "garbage"
    /\ ClobFrames[clob_rcvd[3].frame].kind = "object"
    /\ clob_calls = <<2, 3, 1>>
    /\ ~clob_stop

\* C35: once the stop event is set no further event is passed to the
\* handler, neither from a message received after the stop nor from the
\* rest of a batch that was being dispatched when the stop was set.
\* The loop of lines 291-292 does not look at the stop event.
C35_NoCallAfterStop == [][clob_stop => clob_calls' = clob_calls]_vars

----------------------------------------------------------------------------
(* The coordinator: claims *)

\* C24: a listener whose window has closed and whose stop buffer has elapsed
\* is eventually torn down.
\* The coordinator can only set the stop event; the listener of lines 256-298
\* looks at it only when a message arrives (C21).
C24_ExpiredListenerTornDown == (now > bracket_end) ~> ~ClobLive

----------------------------------------------------------------------------
(* GammaClient.scan_15m_events: claims *)

\* the requests made so far ask for the offsets 0, 200, 400, ... in turn,
\* and there are at most 20 of them
RequestsInOrder ==
    /\ Len(scan_reqs) <= 20
    /\ \A k \in 1..Len(scan_reqs) : scan_reqs[k] = 200 * (k - 1)

\* an answer without results is the last one: the scan has returned
StopsAtEmptyPage ==
    \A k \in 1..Len(scan_pages) :
        scan_pages[k] = <<>>
            => k = Len(scan_pages) /\ k = Len(scan_reqs)
               /\ scan_pc = "returned"

\* C25: scan_15m_events ends for every behaviour of the catalog: it asks for
\* at most 20 pages, at the offsets 0, 200, ..., 3800 in increasing order
\* and each once, and it stops at the first page without results.
C25_ScanTerminates ==
    /\ [](RequestsInOrder /\ StopsAtEmptyPage)
    /\ (scan_pc = "requesting") ~> (scan_pc \in {"returned", "raised"})

\* twenty pages with results were fetched, the last one at offset 3800
C25_Witness ==
    /\ scan_pc = "returned"
    /\ Len(scan_reqs) = 20
    /\ scan_reqs[20] = 3800
    /\ \A k \in 1..20 : scan_pages[k] # <<>>

\* C26: a failed request for one page never aborts the scan.
\* GammaClient.get lets the exception of the session, of raise_for_status and
\* of r.json pass, and scan_15m_events calls it outside any try (line 135).
C26_PageFailureNeverAborts == scan_pc # "raised"

\* the events of the pages fetched so far, in page order
RECURSIVE flatten(_)
flatten(pages) ==
    IF pages = <<>> THEN <<>> ELSE pages[1] \o flatten(Tail(pages))

\* the start time of an event: "eventStartTime", or "startTime" where the
\* former is missing or empty
EventStart(e) ==
    IF e.eventStartTime.kind \in {"absent", "empty"}
    THEN e.startTime
    ELSE e.eventStartTime

\* the event carries a series with recurrence "15m" and a parseable start
\* time within the horizon around the time of the scan
Qualifies(e) ==
    /\ e.has_series
    /\ "15m" \in {e.series[k] : k \in DOMAIN e.series}
    /\ EventStart(e).kind = "iso"
    /\ LET st == EventStart(e).t - EventStart(e).off
       IN  scan_now - scan_horizon <= st /\ st <= scan_now + scan_horizon

QualifyingSoFar ==
    SelectSeq(flatten(scan_pages), LAMBDA n : Qualifies(Events[n]))

\* C27: extract_asset returns btc, eth, sol, xrp or unknown.
\* Line 178 returns the text of the slug before its first "-" whenever the
\* slug is not empty and neither a prefix nor a tag has matched.
C27_AssetInKnownSet ==
    ea_out # None => (is_known_asset(ea_out[1]) \/ ea_out[1] = UNKNOWN)

\* C28: the result holds exactly the qualifying events of the fetched pages,
\* in page order; an event without a start time or with an unparseable one
\* is left out and the scan goes on.
C28_ResultIsQualifyingEvents ==
    /\ scan_pc = "requesting" => scan_out = QualifyingSoFar
    /\ scan_pc = "returned" => scan_result = Some(QualifyingSoFar)

\* two pages that hold events at both ends of the horizon, an event without
\* a start time and one with an unparseable start time
C28_Witness ==
    /\ scan_pc = "returned"
    /\ scan_horizon = 7200
    /\ scan_pages = <<ScanPages[3], ScanPages[4], <<>>>>
    /\ scan_result = Some(<<1, 2, 3>>)

----------------------------------------------------------------------------
(* PolymarketWebSocketCollector: claims *)

\* the rows of a log file: those on disk, then those each open file still
\* holds
FileRows(path) ==
    LET held(m) == IF m \in col_files /\ csv_path(m) = path
                   THEN col_buf[m] ELSE <<>>
    IN  col_disk[path] \o held(M1) \o held(DotM1) \o held(M2)

\* the data rows of one market in its log, each named by the number of the
\* message that wrote it
DataRowsOf(m) ==
    LET rows == SelectSeq(FileRows(csv_path(m)),
                          LAMBDA r : r.kind = "data" /\ r.market_id = m)
    IN  [k \in 1..Len(rows) |-> rows[k].seq]

\* an order-book update that passes validation as the claim words it: market
\* id and timestamp present, every level with 0 < price < 1 and size > 0
GoodLevel(level) ==
    /\ Len(level) >= 2
    /\ level[1].t = "num" /\ 0 < level[1].n /\ level[1].n < 100
    /\ level[2].t = "num" /\ level[2].n > 0

PassesValidation(msg) ==
    /\ msg.kind = "orderbook"
    /\ msg.market_id # <<>>
    /\ msg.timestamp_ms.kind # "absent"
    /\ msg.bids.list /\ msg.asks.list
    /\ \A k \in 1..Len(msg.bids.items) : GoodLevel(msg.bids.items[k])
    /\ \A k \in 1..Len(msg.asks.items) : GoodLevel(msg.asks.items[k])

\* the numbers of the messages handled that are valid updates of market m
RECURSIVE positions(_, _)
positions(m, n) ==
    IF n = 0 THEN <<>>
    ELSE LET msg == Messages[col_seen[n].msg]
         IN  positions(m, n - 1)
             \o (IF PassesValidation(msg) /\ msg.market_id = m
                 THEN <<n>> ELSE <<>>)

\* C29: the data rows of a market's log are the market's updates that pass
\* validation, one row each and in the order of processing; an update that
\* fails validation adds no row.
\* validate_orderbook accepts any non-empty timestamp_ms (line 124), and
\* write_orderbook_csv divides it by 1000 (line 194) before it writes the row.
C29_RowPerValidUpdate ==
    \A m \in MarketIds : DataRowsOf(m) = positions(m, Len(col_seen))

\* C30: a log gets its header exactly once, before its first data row, and
\* none if the file held rows when it was opened.
\* The open files are kept by market id (line 170) and the size is the one
\* on disk (line 175): two ids that name one file each write a header.
C30_HeaderOnce ==
    \A p \in LogPaths :
        LET rows == FileRows(p)
            headers == {k \in 1..Len(rows) : rows[k].kind = "header"}
            data == {k \in 1..Len(rows) : rows[k].kind = "data"}
        IN  /\ Cardinality(headers) <= 1
            /\ col_disk[p] # <<>> => headers = {}
            /\ (col_disk[p] = <<>> /\ data # {}) => headers # {}
            /\ \A h \in headers : \A d \in data : h < d

\* the data rows of all logs, on disk or held by an open file
RECURSIVE rows_written(_)
rows_written(paths) ==
    IF paths = {} THEN 0
    ELSE LET p == CHOOSE q \in paths : TRUE
             rows == FileRows(p)
         IN  Cardinality({k \in 1..Len(rows) : rows[k].kind = "data"})
             + rows_written(paths \ {p})

\* C40: after any sequence of messages total_updates = valid_updates +
\* invalid_updates, and valid_updates is the number of rows written.
\* process_message counts a text that is not JSON as invalid (line 85)
\* without counting it in total_updates (line 97).
C40_CountersAddUp ==
    /\ col_total = col_valid + col_invalid
    /\ col_valid = rows_written(LogPaths)

----------------------------------------------------------------------------
----------------------------------------------------------------------------
(* The backtest evaluators: claims *)

\* the latest signal the runner graded, with entry price and confidence as
\* the runner reads them
LastSignal == Signals[bt_last[1].signal]
LastEntry == signal_get(LastSignal.entry_price, 50)
LastConfidence == signal_get(LastSignal.confidence, 5)
LastDistance ==
    IF bt_last[1].settlement >= LastEntry
    THEN bt_last[1].settlement - LastEntry
    ELSE LastEntry - bt_last[1].settlement

\* C31: the runner grades a long as a win iff settlement > entry and a short
\* as a win iff settlement < entry; a win's P&L is |settlement - entry| *
\* confidence and a loss's P&L is -|settlement - entry| * confidence * 0.5.
\* In units of 1/2000 the two examples are 210 (0.105) and -60 (-0.03).
C31_RunnerGrades ==
    /\ (bt_last # None /\ LastSignal.action \in {Some("long"), Some("short")})
       => LET wins == IF LastSignal.action = Some("long")
                      THEN bt_last[1].settlement > LastEntry
                      ELSE bt_last[1].settlement < LastEntry
          IN  /\ bt_last[1].won = wins
              /\ bt_last[1].pnl = IF wins
                                  THEN LastDistance * LastConfidence * 2
                                  ELSE -(LastDistance * LastConfidence)
    /\ (bt_signals = <<3>> /\ bt_outcomes = <<55>>)
       => bt_wins = 1 /\ bt_pnls = <<210>>
    /\ (bt_signals = <<4>> /\ bt_outcomes = <<90>>)
       => bt_wins = 0 /\ bt_pnls = <<-60>>

\* both examples graded in one run, and a tie graded as a loss
C31_Witness ==
    /\ bt_signals = <<3, 4>> /\ bt_outcomes = <<55, 90>>
    /\ bt_pnls = <<210, -60>> /\ bt_wins = 1
    /\ bt_last = Some([signal |-> 4, settlement |-> 90, won |-> FALSE,
                       pnl |-> -60])

\* no signal of the run was graded by the runner
NothingGradedByRunner ==
    \A k \in 1..Len(bt_signals) : falsy(Signals[bt_signals[k]])

\* no signal of the call was graded by from_signals: the list is empty, all
\* null, or no signal has a settlement next to it
NothingGradedByLoader ==
    \A k \in 1..Min2(Len(fs_in[1].signals), Len(fs_in[1].real_outcomes)) :
        Signals[fs_in[1].signals[k]].null

ExplicitNoSignals(result) ==
    result.error /\ result.trades = 0 /\ result.population = None

OverNonEmpty(result) ==
    ~result.error => result.population[1] >= 1 /\ result.trades >= 1

\* C32: when no signal is graded the evaluator returns the no-signals
\* result (trades = 0 and an error field), and a win rate, mean or Sharpe
\* ratio is only ever computed over at least one P&L.
C32_NoSignalsExplicit ==
    /\ bt_result # None
       => /\ NothingGradedByRunner => ExplicitNoSignals(bt_result[1])
          /\ OverNonEmpty(bt_result[1])
    /\ fs_result # None
       => /\ NothingGradedByLoader => ExplicitNoSignals(fs_result[1])
          /\ OverNonEmpty(fs_result[1])

\* two markets tested, the detector gave nothing, both evaluators say so
C32_Witness ==
    /\ bt_pc = "done" /\ bt_tested = 2 /\ bt_signals = <<1, 2>>
    /\ bt_result = Some(NoSignalsResult)
    /\ fs_in # None /\ fs_in[1].signals = <<1, 2>>
    /\ Len(fs_in[1].real_outcomes) = 2
    /\ fs_result = Some(NoSignalsResult)

\* the run is over and from_signals was called with the run's signals and
\* settlements, none of them the empty dict, which the runner skips
SameInputs ==
    /\ bt_pc = "done" /\ fs_in # None
    /\ fs_in[1].signals = bt_signals
    /\ fs_in[1].real_outcomes = bt_outcomes
    /\ \A k \in 1..Len(bt_signals) :
           falsy(Signals[bt_signals[k]]) => Signals[bt_signals[k]].null

\* C38: from_signals and backtest_detector grade the same signals alike:
\* same wins, same P&L (the factor 0.5 on losses included), same trade
\* count and same number of P&L values.
C38_SameGrading ==
    SameInputs => fs_result = bt_result

\* the signals from_signals counted as trades in its latest call
CountedByLoader ==
    {k \in 1..Min2(Len(fs_in[1].signals), Len(fs_in[1].real_outcomes)) :
        ~Signals[fs_in[1].signals[k]].null}

\* C39: in every result of from_signals the trade count is the number of
\* P&L values behind total_pnl and avg_pnl_per_trade, wins <= trades, and a
\* call that counted a trade does not answer "No signals".
C39_TradesMatchPnls ==
    fs_result # None
    => /\ ~fs_result[1].error
          => /\ fs_result[1].trades = fs_result[1].population[1]
             /\ fs_result[1].wins[1] <= fs_result[1].trades
       /\ CountedByLoader # {} => ~fs_result[1].error

Init == InitPricing
Next == NextCache \/ NextBook \/ NextPricing \/ NextMisprice \/ NextVol
        \/ NextOracle \/ NextClob \/ NextSched \/ NextScan \/ NextAsset
        \/ NextCollector \/ NextBacktest
Spec == Init /\ [][Next]_vars
====
